---------------------------- MODULE Spec2Model ----------------------------
(***************************************************************************)
(* DogStatsD ingestion loop (dogstatsd/src/dogstatsd.rs) together with the *)
(* Aggregator and the line parser it drives.                               *)
(*                                                                         *)
(* Text is modelled as a sequence of one-character strings, so that        *)
(* split('\n'), starts_with and the wire grammar are computed on the       *)
(* characters.  A datagram payload is a sequence of bytes: ASCII           *)
(* characters, or the byte 0xFF, which no UTF-8 text contains.             *)
(* Metric values are natural numbers written in decimal.                   *)
(*                                                                         *)
(* The trace exporter FFI (data-pipeline-ffi/src/trace_exporter.rs) is a   *)
(* separate subsystem with a specification of its own, FfiSpec: a foreign  *)
(* caller holding a config, an exporter out-handle and an AgentResponse.   *)
(***************************************************************************)
EXTENDS Integers, Sequences, FiniteSets, TLC

VARIABLES
    pc,         \* position of spin(): "read" (awaiting read()), "lock", "insert",
                \* "check", "cancelled" (spin returned), "panicked"
    panicMsg,   \* message of the expect() that ended the loop, "" while none
    cancelled,  \* cancel_token.is_cancelled()
    cancelAt,   \* whether spin() was awaiting read() when the token was cancelled:
                \* "read" or "elsewhere", "none" while it is not cancelled
    reads,      \* datagrams returned by read() so far
    buf,        \* the datagram returned by the last read()
    pending,    \* all_valid_metrics not yet passed to insert
    offered,    \* insert calls made for the current datagram: metric and result
    errlog,     \* lines of the current datagram logged "Failed to parse metric"
    lock,       \* holder of the aggregator mutex: "free", "loop", "exporter"
    poisoned,   \* a holder panicked while holding the mutex
    table,      \* the aggregator's entries, in order of first insertion
    ghost,      \* per identity: sum and last of the values inserted with Ok
    pcE,        \* position of the exporting collaborator: "idle", "locked" (it holds
                \* the guard), "series", "sketches", "both" (it holds the guard and
                \* has taken that snapshot), "dead"
    series,     \* result of the exporter's to_series() while it holds the lock
    sketches,   \* result of its distributions_to_protobuf()
    traffic,    \* the lines the clients of this run send
    capacity,   \* the capacity the aggregator was created with
    config,     \* the TraceExporterConfig a foreign caller owns
    exporter,   \* the caller's out-handle for the TraceExporter, "uninit" until written
    response,   \* the caller's AgentResponse
    last,       \* the latest FFI call of the caller: operation, handle, argument, return
    calls,      \* FFI calls made so far
    tagsIn,     \* a TracerHeaderTags to convert to request headers
    headersIn,  \* a HeaderMap to convert to TracerHeaderTags
    mapOut,     \* the HashMap made of tagsIn, once converted
    tagsOut,    \* the TracerHeaderTags made of headersIn, once converted
    profileIn,  \* a pprof::Profile to replay
    replayerOut \* the result of Replayer::try_from(profileIn), once made

\* The state a foreign caller of the trace exporter FFI works on.
ffiVars == <<config, exporter, response, last, calls>>

\* The inputs and results of the conversions of trace-utils.
convVars == <<tagsIn, headersIn, mapOut, tagsOut, profileIn, replayerOut>>

vars == <<pc, panicMsg, cancelled, cancelAt, reads, buf, pending, offered, errlog,
          lock, poisoned, table, ghost, pcE, series, sketches, traffic, capacity,
          config, exporter, response, last, calls,
          tagsIn, headersIn, mapOut, tagsOut, profileIn, replayerOut>>

\* ---------------------------------------------------------------- bounds

\* Datagrams the model lets read() return before the socket stays silent.
MaxReads == 2
\* Lines per datagram.
MaxLines == 2
\* Largest capacity an aggregator is created with (1_024 in the tests).
MaxCapacity == 2
\* FFI calls a foreign caller makes on one config.
MaxCalls == 3
\* Headers a request carries among those TracerHeaderTags reads.
MaxHeaders == 2

\* ------------------------------------------------------------------ text

\* A text is a sequence of bytes: an ASCII byte is written as its character,
\* a byte above 0x7F as its hexadecimal code.
NL == "\n"
\* A byte that is no part of any UTF-8 encoding.
BadByte == "0xFF"
\* Bytes that continue a multi-byte character (0x80..0xBF).
ContinuationBytes == {"0x80", "0xA9"}
\* Bytes that start a character of two bytes (0xC2..0xDF).
LeadBytes == {"0xC3"}
\* The bytes above 0x7F.
HighBytes == ContinuationBytes \cup LeadBytes \cup {BadByte}

StartsWith(s, p) == Len(s) >= Len(p) /\ SubSeq(s, 1, Len(p)) = p

\* Index of the first c in s, 0 when there is none.
IndexOf(s, c) ==
    IF \E i \in 1..Len(s) : s[i] = c
    THEN CHOOSE i \in 1..Len(s) : s[i] = c /\ \A j \in 1..(i - 1) : s[j] # c
    ELSE 0

\* str::split(c): the segments between occurrences of c, empty ones included.
RECURSIVE SplitOn(_, _)
SplitOn(s, c) ==
    LET i == IndexOf(s, c)
    IN  IF i = 0 THEN <<s>>
        ELSE <<SubSeq(s, 1, i - 1)>> \o SplitOn(SubSeq(s, i + 1, Len(s)), c)

\* The segments joined by c.
RECURSIVE Join(_, _)
Join(ss, c) ==
    IF ss = <<>> THEN <<>>
    ELSE IF Len(ss) = 1 THEN ss[1]
    ELSE ss[1] \o <<c>> \o Join(Tail(ss), c)

Digits == {"0", "1", "2", "3", "4", "5", "6", "7", "8", "9"}

DigitVal(c) ==
    CASE c = "0" -> 0 [] c = "1" -> 1 [] c = "2" -> 2 [] c = "3" -> 3
      [] c = "4" -> 4 [] c = "5" -> 5 [] c = "6" -> 6 [] c = "7" -> 7
      [] c = "8" -> 8 [] c = "9" -> 9

\* A float literal without sign and exponent: digits, with at most one point
\* among them.
IsNumeric(s) ==
    LET parts == SplitOn(s, ".")
    IN  /\ Len(parts) \in {1, 2}
        /\ \A i \in 1..Len(parts) : \A j \in 1..Len(parts[i]) : parts[i][j] \in Digits
        /\ \E i \in 1..Len(parts) : parts[i] # <<>>

RECURSIVE ToNat(_)
ToNat(s) ==
    IF s = <<>> THEN 0
    ELSE 10 * ToNat(SubSeq(s, 1, Len(s) - 1)) + DigitVal(s[Len(s)])

\* A value is kept as the decimal it stands for: its whole part and the
\* digits of its fraction, the last of them not 0.  The arithmetic below is
\* exact; it is the arithmetic of f64 for the values the clients send here,
\* whose fractions are halves and quarters.
Decimal(whole, frac) == [whole |-> whole, frac |-> frac]
Whole(n) == Decimal(n, <<>>)

RECURSIVE StripZeros(_)
StripZeros(f) ==
    IF f # <<>> /\ f[Len(f)] = 0 THEN StripZeros(SubSeq(f, 1, Len(f) - 1)) ELSE f

\* str::parse::<f64>() of a literal IsNumeric accepts.
ToValue(s) ==
    LET parts == SplitOn(s, ".")
        frac == IF Len(parts) = 2 THEN parts[2] ELSE <<>>
    IN  Decimal(ToNat(parts[1]), StripZeros([i \in 1..Len(frac) |-> DigitVal(frac[i])]))

\* The fraction digits f extended by zeros to n digits.
PadTo(f, n) == [i \in 1..n |-> IF i <= Len(f) THEN f[i] ELSE 0]

\* The sum of two fractions of as many digits, and its carry.
RECURSIVE AddDigits(_, _)
AddDigits(f, g) ==
    IF f = <<>> THEN [carry |-> 0, digits |-> <<>>]
    ELSE LET r == AddDigits(Tail(f), Tail(g))
             d == Head(f) + Head(g) + r.carry
         IN  [carry |-> d \div 10, digits |-> <<d % 10>> \o r.digits]

\* a + b
Plus(a, b) ==
    LET n == IF Len(a.frac) >= Len(b.frac) THEN Len(a.frac) ELSE Len(b.frac)
        r == AddDigits(PadTo(a.frac, n), PadTo(b.frac, n))
    IN  Decimal(a.whole + b.whole + r.carry, StripZeros(r.digits))

\* a < b
Less(a, b) ==
    LET n == IF Len(a.frac) >= Len(b.frac) THEN Len(a.frac) ELSE Len(b.frac)
        f == PadTo(a.frac, n)
        g == PadTo(b.frac, n)
    IN  \/ a.whole < b.whole
        \/ /\ a.whole = b.whole
           /\ \E i \in 1..n : f[i] < g[i] /\ \A j \in 1..(i - 1) : f[j] = g[j]

\* std::str::from_utf8(&buf).is_ok(): every byte is ASCII or part of a
\* character of two bytes, a lead byte and the continuation byte after it.
ValidUtf8(b) ==
    \A i \in 1..Len(b) :
        /\ b[i] # BadByte
        /\ b[i] \in LeadBytes => (i < Len(b) /\ b[i + 1] \in ContinuationBytes)
        /\ b[i] \in ContinuationBytes => (i > 1 /\ b[i - 1] \in LeadBytes)


\* ---------------------------------------------------------------- parser
\* metric::parse: <name>:<value>|<type>[|@<sample_rate>][|#<tag>,<tag>,...]

ParseError(e) ==
    [ok |-> FALSE, err |-> e, name |-> <<>>, kind |-> "None", value |-> Whole(0), tags |-> <<>>]

KindOf(t) ==
    CASE t = <<"c">> -> "Counter"
      [] t = <<"g">> -> "Gauge"
      [] t = <<"d">> -> "Distribution"
      [] OTHER -> "None"

\* The optional segments after the type: a sample rate, then the tags.
SuffixOk(rest) ==
    \/ rest = <<>>
    \/ Len(rest) = 1 /\ StartsWith(rest[1], <<"@">>) /\ IsNumeric(Tail(rest[1]))
    \/ Len(rest) = 1 /\ StartsWith(rest[1], <<"#">>)
    \/ Len(rest) = 2 /\ StartsWith(rest[1], <<"@">>) /\ IsNumeric(Tail(rest[1]))
                     /\ StartsWith(rest[2], <<"#">>)

TagsOf(rest) ==
    IF rest # <<>> /\ StartsWith(rest[Len(rest)], <<"#">>) /\ Len(rest[Len(rest)]) > 1
    THEN SplitOn(Tail(rest[Len(rest)]), ",")
    ELSE <<>>

Parse(line) ==
    LET parts == SplitOn(line, "|")
        head  == parts[1]
        ci    == IndexOf(head, ":")
        name  == SubSeq(head, 1, ci - 1)
        val   == SubSeq(head, ci + 1, Len(head))
        rest  == SubSeq(parts, 3, Len(parts))
    IN  IF ci = 0 \/ name = <<>> \/ val = <<>> THEN ParseError("missing value")
        ELSE IF Len(parts) < 2 \/ KindOf(parts[2]) = "None" THEN ParseError("unknown type")
        ELSE IF ~IsNumeric(val) THEN ParseError("invalid value")
        ELSE IF ~SuffixOk(rest) THEN ParseError("invalid suffix")
        ELSE [ok |-> TRUE, err |-> "", name |-> name, kind |-> KindOf(parts[2]),
              value |-> ToValue(val), tags |-> TagsOf(rest)]

MetricOf(r) == [name |-> r.name, kind |-> r.kind, value |-> r.value, tags |-> r.tags]

\* ---------------------------------------------------------- frame filter

ServiceCheckPrefix == <<"_", "s", "c", "|">>
EventPrefix == <<"_", "e", "{">>

KeepLineNoSentinel(m) == m # <<>>

\* The closure of the first filter of insert_metrics.
KeepLine(m) ==
    m # <<>> /\ ~StartsWith(m, ServiceCheckPrefix) /\ ~StartsWith(m, EventPrefix)

\* m.replace('\n', "")
RemoveNL(m) == SelectSeq(m, LAMBDA c : c # NL)

\* msg.filter(..).map(|m| m.replace('\n', ""))
Candidates(msg) ==
    LET kept == SelectSeq(msg, KeepLine)
    IN  [i \in 1..Len(kept) |-> RemoveNL(kept[i])]

ParsesOk(m) == Parse(m).ok

\* The metrics up to the first line that fails to parse (a collect into Result).
AllValidUntilError(cands) ==
    LET bad == {i \in 1..Len(cands) : ~ParsesOk(cands[i])}
        n   == IF bad = {} THEN Len(cands)
               ELSE (CHOOSE i \in bad : \A j \in bad : i <= j) - 1
    IN  [i \in 1..n |-> MetricOf(Parse(cands[i]))]

\* filter_map(parse).collect(): the metric of every candidate that parses.
AllValidMetrics(cands) ==
    LET good == SelectSeq(cands, ParsesOk)
    IN  [i \in 1..Len(good) |-> MetricOf(Parse(good[i]))]

\* The candidates for which error!("Failed to parse metric ..") is called.
ParseFailures(cands) == SelectSeq(cands, LAMBDA m : ~ParsesOk(m))


\* ------------------------------------------------------------ aggregator

\* EMPTY_TAGS, the default tags the aggregator is created with.
DefaultTags == <<>>

\* The identity two observations share to land in the same entry.
Id(m) == <<m.name, m.tags>>

EmptySketch == [cnt |-> 0, sum |-> Whole(0), min |-> Whole(0), max |-> Whole(0)]

\* The sketch after ingesting v, summarised by count, sum, minimum and maximum.
SketchInsert(k, v) ==
    [cnt |-> k.cnt + 1, sum |-> Plus(k.sum, v),
     min |-> IF k.cnt = 0 \/ Less(v, k.min) THEN v ELSE k.min,
     max |-> IF k.cnt = 0 \/ Less(k.max, v) THEN v ELSE k.max]

\* The entry created by the first observation of an identity.
NewEntry(m) ==
    [name |-> m.name, tags |-> m.tags, kind |-> m.kind,
     value |-> IF m.kind = "Distribution" THEN Whole(0) ELSE m.value,
     sketch |-> IF m.kind = "Distribution" THEN SketchInsert(EmptySketch, m.value)
                ELSE EmptySketch]

AccumulateCounterReplaces(e, m) ==
    CASE e.kind = "Counter" -> [e EXCEPT !.value = m.value]
      [] e.kind = "Gauge" -> [e EXCEPT !.value = m.value]
      [] OTHER -> [e EXCEPT !.sketch = SketchInsert(e.sketch, m.value)]

AccumulateGaugeSums(e, m) ==
    CASE e.kind = "Counter" -> [e EXCEPT !.value = Plus(e.value, m.value)]
      [] e.kind = "Gauge" -> [e EXCEPT !.value = Plus(e.value, m.value)]
      [] OTHER -> [e EXCEPT !.sketch = SketchInsert(e.sketch, m.value)]

\* The accumulation rule of the entry: sum, replace, sketch-ingest.
Accumulate(e, m) ==
    CASE e.kind = "Counter" -> [e EXCEPT !.value = Plus(e.value, m.value)]
      [] e.kind = "Gauge" -> [e EXCEPT !.value = m.value]
      [] OTHER -> [e EXCEPT !.sketch = SketchInsert(e.sketch, m.value)]

\* Position of the entry tracking identity id, 0 when it is not tracked.
Find(t, id) ==
    IF \E i \in 1..Len(t) : <<t[i].name, t[i].tags>> = id
    THEN CHOOSE i \in 1..Len(t) : <<t[i].name, t[i].tags>> = id
    ELSE 0

MergeSameName(t, i, m) ==
    [k \in 1..Len(t) |-> IF t[k].name = t[i].name THEN Accumulate(t[k], m) ELSE t[k]]

\* The table after merging m into the entry at position i.
MergeTracked(t, i, m) == [t EXCEPT ![i] = Accumulate(t[i], m)]

InsertNoCapacityCheck(t, m) ==
    LET i == Find(t, Id(m))
    IN  IF i # 0 THEN [table |-> MergeTracked(t, i, m), res |-> "Ok"]
        ELSE [table |-> Append(t, NewEntry(m)), res |-> "Ok"]

InsertEvictsOldest(t, m) ==
    LET i == Find(t, Id(m))
    IN  IF i # 0 THEN [table |-> MergeTracked(t, i, m), res |-> "Ok"]
        ELSE IF Len(t) >= capacity
             THEN [table |-> Append(Tail(t), NewEntry(m)), res |-> "Ok"]
        ELSE [table |-> Append(t, NewEntry(m)), res |-> "Ok"]

\* Aggregator::insert: the table afterwards and the result returned.
Insert(t, m) ==
    LET i == Find(t, Id(m))
    IN  IF i # 0 THEN [table |-> MergeTracked(t, i, m), res |-> "Ok"]
        ELSE IF Len(t) >= capacity THEN [table |-> t, res |-> "Overflow"]
        ELSE [table |-> Append(t, NewEntry(m)), res |-> "Ok"]

\* The tags of an export record: default and observation tags joined by commas.
ExportTags(e) == Join(DefaultTags \o e.tags, ",")

SeriesRecord(e) == [name |-> e.name, value |-> e.value, tags |-> ExportTags(e)]

SketchRecord(e) == [name |-> e.name, tags |-> ExportTags(e), sketch |-> e.sketch]

ToSeriesAllEntries(t) == [i \in 1..Len(t) |-> SeriesRecord(t[i])]

\* Aggregator::to_series: one record per Counter or Gauge entry.
ToSeries(t) ==
    LET scalar == SelectSeq(t, LAMBDA e : e.kind # "Distribution")
    IN  [i \in 1..Len(scalar) |-> SeriesRecord(scalar[i])]

\* Aggregator::distributions_to_protobuf: one record per Distribution entry.
DistributionsToProtobuf(t) ==
    LET dist == SelectSeq(t, LAMBDA e : e.kind = "Distribution")
    IN  [i \in 1..Len(dist) |-> SketchRecord(dist[i])]

DrainOnExport(t) == <<>>

\* The table after an export: both exports take &self.
AfterExport(t) == t

\* ---------------------------------------------------------------- inputs

LineA1c == <<"a", ":", "1", "|", "c">>
LineA15c == <<"a", ":", "1", ".", "5", "|", "c">>
LineA1cTag == <<"a", ":", "1", "|", "c", "|", "#", "t", ":", "v">>
LineB2g == <<"b", ":", "2", "|", "g">>
LineB1g == <<"b", ":", "1", "|", "g">>
LineD3d == <<"d", ":", "3", "|", "d">>
LineA3g == <<"a", ":", "3", "|", "g">>
LineEmpty == <<>>
LineServiceCheck == <<"_", "s", "c", "|", "s", "e", "r", "v", "i", "c", "e", "c", "h", "e", "c", "k", "|", "0">>
LineEvent == <<"_", "e", "{", "a", ":", "1", "|", "c">>
LineBadValue == <<"a", ":", "x", "|", "c">>
LineA3cTags == <<"a", ":", "3", "|", "c", "|", "#", "t", ":", "v", ",", "u", ":", "w">>

\* The lines a run's clients send: each run draws its datagrams from one of
\* these: a scalar and a distribution, for tables of one entry and more,
\* repeated observations of one counter, of one gauge, of one identity under
\* two types, a metric among non-metric lines, and one name without tags and
\* with several.
CapacityTraffic == {LineA1cTag, LineD3d}
CounterTraffic == {LineA1c, LineA15c}
GaugeTraffic == {LineB2g, LineB1g}
ClashTraffic == {LineA1c, LineA3g}
FramingTraffic == {LineA1c, LineEmpty, LineServiceCheck, LineEvent, LineBadValue}
TagTraffic == {LineA1c, LineA3cTags}

\* A run: its traffic and the capacity its aggregator is created with.
Setups ==
    {[traffic |-> CapacityTraffic, capacity |-> c] : c \in 1..MaxCapacity}
        \cup {[traffic |-> w, capacity |-> MaxCapacity] :
                  w \in {CounterTraffic, GaugeTraffic, ClashTraffic, FramingTraffic,
                        TagTraffic}}

\* Payloads of 1..MaxLines lines of ls joined by line feeds.
TextDatagrams(ls) ==
    {Join(l, NL) : l \in UNION {[1..n -> ls] : n \in 1..MaxLines}}

\* Payloads that are not UTF-8.
BinaryDatagrams == {<<"0x80">>, LineA1c \o <<NL, BadByte>>}

Datagrams(ls) == TextDatagrams(ls) \cup BinaryDatagrams


\* ------------------------------------------------- trace exporter config

\* Option<String>
None == [some |-> FALSE]
Some(str) == [some |-> TRUE, val |-> str]

\* Option::unwrap_or(&"".to_string())
UnwrapOrEmpty(o) == IF o.some THEN o.val ELSE <<>>

\* The Option<String> fields of TraceExporterConfig.
ConfigFields ==
    {"url", "tracer_version", "language", "language_version", "language_interpreter",
     "hostname", "env", "version", "service"}

\* TraceExporterConfig::default(), what ddog_trace_exporter_config_new writes.
ConfigDefault ==
    [url |-> None, tracer_version |-> None, language |-> None,
     language_version |-> None, language_interpreter |-> None, hostname |-> None,
     env |-> None, version |-> None, service |-> None,
     input_format |-> "V04", output_format |-> "V04", compute_stats |-> FALSE]

\* The caller's config after ddog_trace_exporter_config_free: the box is
\* dropped and there is nothing to refer to.
ConfigDropped == [dropped |-> TRUE]

\* The out-handle of ddog_trace_exporter_new before anything is written to it.
Uninit == [written |-> FALSE]

\* The out-handle after ddog_trace_exporter_free: the exporter is dropped.
ExporterDropped == [written |-> FALSE, dropped |-> TRUE]

\* AgentResponse { rate: 0.0 }
ResponseDefault == [rate |-> 0]

\* The byte slices the caller passes: two texts and one that is not UTF-8.
SliceUrl ==
    <<"h", "t", "t", "p", ":", "/", "/", "l", "o", "c", "a", "l", "h", "o", "s", "t">>
SliceVersion == <<"1", ".", "0">>
SliceInvalid == <<"0x80", BadByte>>
CharSlices == {SliceUrl, SliceVersion, SliceInvalid}

\* An Option<&T>: None (a null pointer) or a reference to the caller's object.
Handles == {"null", "valid"}

\* The caller has a default config, an unwritten out-handle and a zero response.
FfiStart ==
    /\ config = ConfigDefault
    /\ exporter = Uninit
    /\ response = ResponseDefault
    /\ last = [op |-> "config_new", handle |-> "valid", arg |-> <<>>, ret |-> "None"]
    /\ calls = 0

\* ---------------------------------------------------- tracer header tags

\* The header each string field of TracerHeaderTags travels in.
HeaderOf ==
    [lang |-> "datadog-meta-lang",
     lang_version |-> "datadog-meta-lang-version",
     lang_interpreter |-> "datadog-meta-lang-interpreter",
     lang_vendor |-> "datadog-meta-lang-vendor",
     tracer_version |-> "datadog-meta-tracer-version",
     container_id |-> "datadog-container-id"]

StringFields == DOMAIN HeaderOf
StringHeaders == {HeaderOf[f] : f \in StringFields}

TopLevelHeader == "datadog-client-computed-top-level"
StatsHeader == "datadog-client-computed-stats"

\* TracerHeaderTags::default()
TagsDefault ==
    [lang |-> <<>>, lang_version |-> <<>>, lang_interpreter |-> <<>>,
     lang_vendor |-> <<>>, tracer_version |-> <<>>, container_id |-> <<>>,
     client_computed_top_level |-> FALSE, client_computed_stats |-> FALSE]

\* HashMap::from([...]): one pair per string field, empty or not.
AllStringHeaders(tags) ==
    [k \in StringHeaders |-> tags[CHOOSE f \in StringFields : HeaderOf[f] = k]]

RetainAll(h) == h

\* headers.retain(|_, v| !v.is_empty())
RetainNonEmpty(h) == [k \in {x \in DOMAIN h : h[x] # <<>>} |-> h[k]]

\* impl From<TracerHeaderTags> for HashMap<&'static str, String>
TagsToHashMap(tags) == RetainNonEmpty(AllStringHeaders(tags))

\* The ASCII bytes that are not visible: the control characters but the tab,
\* and DEL.
ControlBytes == {NL, "\r", "0x7F"}

\* HeaderValue::to_str: fails on a byte that is neither visible ASCII nor a
\* tab, be the value UTF-8 or not.
ToStr(v) ==
    IF \A i \in 1..Len(v) : v[i] \notin HighBytes \cup ControlBytes
    THEN [ok |-> TRUE, val |-> v]
    ELSE [ok |-> FALSE, val |-> <<>>]

\* One arm of parse_string_header!: the field is assigned when the header is
\* there and is a string, and keeps its default otherwise.
ParseStringHeader(headers, key, default) ==
    IF key \in DOMAIN headers /\ ToStr(headers[key]).ok
    THEN ToStr(headers[key]).val
    ELSE default

\* impl From<&HeaderMap<HeaderValue>> for TracerHeaderTags
HeaderMapToTags(headers) ==
    [lang |-> ParseStringHeader(headers, "datadog-meta-lang", TagsDefault.lang),
     lang_version |->
         ParseStringHeader(headers, "datadog-meta-lang-version", TagsDefault.lang_version),
     lang_interpreter |->
         ParseStringHeader(headers, "datadog-meta-lang-interpreter",
                           TagsDefault.lang_interpreter),
     lang_vendor |->
         ParseStringHeader(headers, "datadog-meta-lang-vendor", TagsDefault.lang_vendor),
     tracer_version |->
         ParseStringHeader(headers, "datadog-meta-tracer-version",
                           TagsDefault.tracer_version),
     container_id |->
         ParseStringHeader(headers, "datadog-container-id", TagsDefault.container_id),
     client_computed_top_level |->
         IF TopLevelHeader \in DOMAIN headers THEN TRUE
         ELSE TagsDefault.client_computed_top_level,
     client_computed_stats |->
         IF StatsHeader \in DOMAIN headers THEN TRUE
         ELSE TagsDefault.client_computed_stats]

\* The TracerHeaderTags to convert: every string field empty or "1.0", every
\* flag either way.
TagsInputs ==
    [lang : {<<>>, SliceVersion}, lang_version : {<<>>, SliceVersion},
     lang_interpreter : {<<>>, SliceVersion}, lang_vendor : {<<>>, SliceVersion},
     tracer_version : {<<>>, SliceVersion}, container_id : {<<>>, SliceVersion},
     client_computed_top_level : BOOLEAN, client_computed_stats : BOOLEAN]

\* The values a header carries: empty, a visible text, and a text in UTF-8
\* that is not ASCII.
HeaderValues == {<<>>, SliceVersion, <<"0xC3", "0xA9">>}

\* The header maps to convert: up to MaxHeaders of the headers read.
HeaderMaps ==
    UNION {[ks -> HeaderValues] :
               ks \in {x \in SUBSET (StringHeaders \cup {TopLevelHeader, StatsHeader}) :
                          Cardinality(x) <= MaxHeaders}}

\* HeaderMap::new()
NoHeaders == [k \in {} |-> <<>>]

\* --------------------------------------------------------- pprof data

\* Most labels of a sample of the profiles replayed, and most samples of such
\* a profile.
MaxLabels == 2
MaxSamples == 2

\* The string table of the profiles replayed; pprof indexes it from 0, and
\* index 0 is the empty string.
StringTable ==
    <<"", "local root span id", "trace endpoint", "thread id", "GET /users", "POST /login",
      "cpu-time", "nanoseconds">>

\* ProfileIndex::get_string: the string at an index of the string table, an
\* error for an index outside of it.
get_string(id) ==
    IF id \in 0..(Len(StringTable) - 1)
    THEN [ok |-> TRUE, val |-> StringTable[id + 1]]
    ELSE [ok |-> FALSE]

\* The index of a string of the table.
StringId(str) == (CHOOSE i \in 1..Len(StringTable) : StringTable[i] = str) - 1

\* An index outside of the string table.
BadStringId == Len(StringTable)

\* pprof::Label
PprofLabel(key, str, num) == [key |-> key, str |-> str, num |-> num, num_unit |-> 0]

\* The labels of the samples: local root span ids (positive, zero, negative),
\* trace endpoints with and without a string, another label, and a label
\* whose key is not in the string table.
LrsiLabel(num) == PprofLabel(StringId("local root span id"), 0, num)
EndpointLabel(str) == PprofLabel(StringId("trace endpoint"), str, 0)
ThreadLabel == PprofLabel(StringId("thread id"), 0, 5)
UnknownLabel == PprofLabel(BadStringId, 0, 0)
LabelInputs ==
    {LrsiLabel(7), LrsiLabel(0), LrsiLabel(-1),
     EndpointLabel(StringId("GET /users")), EndpointLabel(0),
     ThreadLabel, UnknownLabel}

\* pprof::Sample; the profiles replayed have no location table, so a sample
\* with a location id names a location that is not there.
PprofSample(labels, values, location_ids) ==
    [labels |-> labels, values |-> values, location_ids |-> location_ids]

\* Every sample of up to MaxLabels labels.
LabelLists == UNION {[1..n -> LabelInputs] : n \in 0..MaxLabels}
SampleInputs == {PprofSample(ls, <<1>>, <<>>) : ls \in LabelLists}

\* The samples of the profiles of several samples: each with values of its
\* own, so that the order of the samples shows.
SampleShapes ==
    {PprofSample(<<ThreadLabel>>, <<10>>, <<>>),
     PprofSample(<<LrsiLabel(7), EndpointLabel(StringId("GET /users"))>>, <<20>>, <<>>),
     PprofSample(<<EndpointLabel(StringId("POST /login")), ThreadLabel, LrsiLabel(-1)>>,
                 <<30>>, <<>>),
     PprofSample(<<LrsiLabel(7), ThreadLabel>>, <<40>>, <<>>),
     PprofSample(<<LrsiLabel(0), EndpointLabel(StringId("GET /users"))>>, <<50>>, <<>>),
     PprofSample(<<LrsiLabel(7), EndpointLabel(0)>>, <<60>>, <<>>),
     PprofSample(<<ThreadLabel>>, <<70>>, <<1>>)}

\* What a profile has besides its samples: the time it was taken at and its
\* duration, its sample types, its period and the type of the period.
PprofHeader(time_nanos, duration_nanos, sample_types, period_type, period) ==
    [time_nanos |-> time_nanos, duration_nanos |-> duration_nanos,
     sample_types |-> sample_types, period_type |-> period_type, period |-> period]

\* pprof::ValueType is two indexes of the string table.  A profile without
\* types, one with a negative duration, one taken before the epoch with a sample type and a period, and two whose sample type or
\* period type names a string that is not in the table.
HeaderShapes ==
    LET PprofValueType(type, unit) == [type |-> type, unit |-> unit]
        CpuTime == PprofValueType(StringId("cpu-time"), StringId("nanoseconds"))
    IN  {PprofHeader(0, 1, <<>>, None, 0),
         PprofHeader(0, -1, <<>>, None, 0),
         PprofHeader(-5, 1, <<CpuTime>>, Some(CpuTime), 10),
         PprofHeader(0, 1, <<PprofValueType(BadStringId, 0)>>, None, 0),
         PprofHeader(0, 1, <<>>, Some(PprofValueType(StringId("cpu-time"), BadStringId)), 10)}

\* pprof::Profile, as far as the replayer reads it.
PprofProfile(header, samples) ==
    [time_nanos |-> header.time_nanos, duration_nanos |-> header.duration_nanos,
     sample_types |-> header.sample_types, period_type |-> header.period_type,
     period |-> header.period, samples |-> samples]

\* The profiles replayed: every sample of up to MaxLabels labels alone, and
\* every profile of up to MaxSamples of the sample shapes, under each header.
SampleLists ==
    {<<s>> : s \in SampleInputs}
        \cup UNION {[1..n -> SampleShapes] : n \in 0..MaxSamples}
Profiles == {PprofProfile(h, ss) : h \in HeaderShapes, ss \in SampleLists}

\* pprof::Profile::default()
NoProfile == PprofProfile(PprofHeader(0, 0, <<>>, None, 0), <<>>)

\* A conversion not made yet.
NotConverted == [done |-> FALSE]

\* No profile is replayed.
ReplayIdle ==
    /\ profileIn = NoProfile
    /\ replayerOut = NotConverted

\* No conversion is asked for.
ConvIdle ==
    /\ tagsIn = TagsDefault
    /\ headersIn = NoHeaders
    /\ mapOut = NotConverted
    /\ tagsOut = NotConverted
    /\ ReplayIdle

\* ------------------------------------------------------------------ state

NoGhost == [id \in {} |-> [sum |-> Whole(0), last |-> Whole(0)]]

Init ==
    /\ pc = "read"
    /\ panicMsg = ""
    /\ cancelled = FALSE
    /\ cancelAt = "none"
    /\ reads = 0
    /\ buf = <<>>
    /\ pending = <<>>
    /\ offered = <<>>
    /\ errlog = <<>>
    /\ lock = "free"
    /\ poisoned = FALSE
    /\ table = <<>>
    /\ ghost = NoGhost
    /\ pcE = "idle"
    /\ series = <<>>
    /\ sketches = <<>>
    /\ \E s \in Setups : traffic = s.traffic /\ capacity = s.capacity
    /\ FfiStart
    /\ ConvIdle

loopVars == <<pc, panicMsg, reads, buf, pending, offered, errlog, traffic, capacity>>
exportVars == <<pcE, series, sketches>>

\* ------------------------------------------------------- ingestion loop

\* A loop that takes the lock for every datagram, metrics or none.
ConsumeAlwaysLocks(d) ==
    /\ pc = "read"
    /\ reads < MaxReads
    /\ reads' = reads + 1
    /\ buf' = d
    /\ offered' = <<>>
    /\ IF ~ValidUtf8(d)
       THEN /\ pc' = "panicked"
            /\ panicMsg' = "couldn't parse as string"
            /\ pending' = <<>>
            /\ errlog' = <<>>
       ELSE LET cands == Candidates(SplitOn(d, NL))
            IN  /\ pending' = AllValidMetrics(cands)
                /\ errlog' = ParseFailures(cands)
                /\ pc' = "lock"
                /\ panicMsg' = panicMsg
    /\ UNCHANGED <<cancelled, cancelAt, lock, poisoned, table, ghost, exportVars, traffic, capacity, ffiVars, convVars>>

\* A loop that looks at the token before it reads: once the token is
\* cancelled it leaves without reading.
ConsumeChecksFirst(d) ==
    \/ /\ pc = "read"
       /\ cancelled
       /\ pc' = "cancelled"
       /\ UNCHANGED <<panicMsg, reads, buf, pending, offered, errlog, cancelled, cancelAt, lock,
                      poisoned, table, ghost, exportVars, traffic, capacity, ffiVars, convVars>>
    \/ /\ pc = "read"
       /\ ~cancelled
       /\ reads < MaxReads
       /\ reads' = reads + 1
       /\ buf' = d
       /\ offered' = <<>>
       /\ IF ~ValidUtf8(d)
          THEN /\ pc' = "panicked"
               /\ panicMsg' = "couldn't parse as string"
               /\ pending' = <<>>
               /\ errlog' = <<>>
          ELSE LET cands == Candidates(SplitOn(d, NL))
               IN  /\ pending' = AllValidMetrics(cands)
                   /\ errlog' = ParseFailures(cands)
                   /\ pc' = IF AllValidMetrics(cands) = <<>> THEN "check" ELSE "lock"
                   /\ panicMsg' = panicMsg
       /\ UNCHANGED <<cancelled, cancelAt, lock, poisoned, table, ghost, exportVars, traffic, capacity, ffiVars, convVars>>

\* consume_statsd up to the lock: read() returns d, the payload is decoded,
\* split into lines, filtered and parsed.
Consume(d) ==
    /\ pc = "read"
    /\ reads < MaxReads
    /\ reads' = reads + 1
    /\ buf' = d
    /\ offered' = <<>>
    /\ IF ~ValidUtf8(d)
       THEN /\ pc' = "panicked"
            /\ panicMsg' = "couldn't parse as string"
            /\ pending' = <<>>
            /\ errlog' = <<>>
       ELSE LET cands == Candidates(SplitOn(d, NL))
            IN  /\ pending' = AllValidMetrics(cands)
                /\ errlog' = ParseFailures(cands)
                /\ pc' = IF AllValidMetrics(cands) = <<>> THEN "check" ELSE "lock"
                /\ panicMsg' = panicMsg
    /\ UNCHANGED <<cancelled, cancelAt, lock, poisoned, table, ghost, exportVars, traffic, capacity, ffiVars, convVars>>

\* A read() whose failure is swallowed, the loop going on to its next turn.
ReadFailRecovers ==
    /\ pc = "read"
    /\ pc' = "check"
    /\ panicMsg' = "didn't receive data"
    /\ UNCHANGED <<cancelled, cancelAt, reads, buf, pending, offered, errlog, lock, poisoned,
                   table, ghost, exportVars, traffic, capacity, ffiVars, convVars>>

\* read() fails: expect("didn't receive data") panics.
ReadFail ==
    /\ pc = "read"
    /\ pc' = "panicked"
    /\ panicMsg' = "didn't receive data"
    /\ UNCHANGED <<cancelled, cancelAt, reads, buf, pending, offered, errlog, lock, poisoned,
                   table, ghost, exportVars, traffic, capacity, ffiVars, convVars>>

\* A loop that takes the guard out of a poisoned mutex and goes on.
AcquireIgnoresPoison ==
    /\ pc = "lock"
    /\ lock = "free"
    /\ pc' = "insert"
    /\ panicMsg' = panicMsg
    /\ lock' = "loop"
    /\ UNCHANGED <<cancelled, cancelAt, reads, buf, pending, offered, errlog, poisoned,
                   table, ghost, exportVars, traffic, capacity, ffiVars, convVars>>

\* self.aggregator.lock().expect("lock poisoned")
Acquire ==
    /\ pc = "lock"
    /\ lock = "free"
    /\ IF poisoned
       THEN /\ pc' = "panicked"
            /\ panicMsg' = "lock poisoned"
            /\ lock' = lock
       ELSE /\ pc' = "insert"
            /\ panicMsg' = panicMsg
            /\ lock' = "loop"
    /\ UNCHANGED <<cancelled, cancelAt, reads, buf, pending, offered, errlog, poisoned,
                   table, ghost, exportVars, traffic, capacity, ffiVars, convVars>>

\* A loop that gives up the rest of the datagram at the first failed insert.
InsertOneStopsOnError ==
    /\ pc = "insert"
    /\ pending # <<>>
    /\ LET m == Head(pending)
           r == Insert(table, m)
       IN  /\ table' = r.table
           /\ offered' = Append(offered, [metric |-> m, res |-> r.res])
           /\ ghost' = IF r.res = "Ok"
                       THEN [id \in DOMAIN ghost \cup {Id(m)} |->
                               IF id = Id(m)
                               THEN [sum |-> Plus(IF id \in DOMAIN ghost THEN ghost[id].sum
                                                  ELSE Whole(0), m.value),
                                     last |-> m.value]
                               ELSE ghost[id]]
                       ELSE ghost
           /\ pending' = IF r.res = "Ok" THEN Tail(pending) ELSE <<>>
    /\ UNCHANGED <<pc, panicMsg, cancelled, cancelAt, reads, buf, errlog, lock, poisoned,
                   exportVars, traffic, capacity, ffiVars, convVars>>

\* A loop that walks all_valid_metrics from its end.
InsertOneFromBack ==
    /\ pc = "insert"
    /\ pending # <<>>
    /\ LET m == pending[Len(pending)]
           r == Insert(table, m)
       IN  /\ table' = r.table
           /\ offered' = Append(offered, [metric |-> m, res |-> r.res])
           /\ ghost' = IF r.res = "Ok"
                       THEN [id \in DOMAIN ghost \cup {Id(m)} |->
                               IF id = Id(m)
                               THEN [sum |-> Plus(IF id \in DOMAIN ghost THEN ghost[id].sum
                                                  ELSE Whole(0), m.value),
                                     last |-> m.value]
                               ELSE ghost[id]]
                       ELSE ghost
    /\ pending' = SubSeq(pending, 1, Len(pending) - 1)
    /\ UNCHANGED <<pc, panicMsg, cancelled, cancelAt, reads, buf, errlog, lock, poisoned,
                   exportVars, traffic, capacity, ffiVars, convVars>>

\* A loop that locks the aggregator anew for every metric.
InsertOneLockPerMetric ==
    /\ pc = "insert"
    /\ pending # <<>>
    /\ LET m == Head(pending)
           r == Insert(table, m)
       IN  /\ table' = r.table
           /\ offered' = Append(offered, [metric |-> m, res |-> r.res])
           /\ ghost' = IF r.res = "Ok"
                       THEN [id \in DOMAIN ghost \cup {Id(m)} |->
                               IF id = Id(m)
                               THEN [sum |-> Plus(IF id \in DOMAIN ghost THEN ghost[id].sum
                                                  ELSE Whole(0), m.value),
                                     last |-> m.value]
                               ELSE ghost[id]]
                       ELSE ghost
    /\ pending' = Tail(pending)
    /\ lock' = IF pending' = <<>> THEN lock ELSE "free"
    /\ pc' = IF pending' = <<>> THEN pc ELSE "lock"
    /\ UNCHANGED <<panicMsg, cancelled, cancelAt, reads, buf, errlog, poisoned,
                   exportVars, traffic, capacity, ffiVars, convVars>>

\* One turn of the for loop: let _ = guarded_aggregator.insert(a_valid_value)
InsertOne ==
    /\ pc = "insert"
    /\ pending # <<>>
    /\ LET m == Head(pending)
           r == Insert(table, m)
       IN  /\ table' = r.table
           /\ offered' = Append(offered, [metric |-> m, res |-> r.res])
           /\ ghost' = IF r.res = "Ok"
                       THEN [id \in DOMAIN ghost \cup {Id(m)} |->
                               IF id = Id(m)
                               THEN [sum |-> Plus(IF id \in DOMAIN ghost THEN ghost[id].sum
                                                  ELSE Whole(0), m.value),
                                     last |-> m.value]
                               ELSE ghost[id]]
                       ELSE ghost
    /\ pending' = Tail(pending)
    /\ UNCHANGED <<pc, panicMsg, cancelled, cancelAt, reads, buf, errlog, lock, poisoned,
                   exportVars, traffic, capacity, ffiVars, convVars>>

\* A loop that looks at the token only after a datagram without metrics: after
\* its inserts it goes back to the read.
ReleaseSkipsCheck ==
    /\ pc = "insert"
    /\ pending = <<>>
    /\ lock' = "free"
    /\ pc' = "read"
    /\ UNCHANGED <<panicMsg, cancelled, cancelAt, reads, buf, pending, offered, errlog, poisoned,
                   table, ghost, exportVars, traffic, capacity, ffiVars, convVars>>

\* A loop that keeps its guard from one datagram to the next.
ReleaseKeepsLock ==
    /\ pc = "insert"
    /\ pending = <<>>
    /\ lock' = lock
    /\ pc' = "check"
    /\ UNCHANGED <<panicMsg, cancelled, cancelAt, reads, buf, pending, offered, errlog, poisoned,
                   table, ghost, exportVars, traffic, capacity, ffiVars, convVars>>

\* The guard is dropped at the end of the block.
Release ==
    /\ pc = "insert"
    /\ pending = <<>>
    /\ lock' = "free"
    /\ pc' = "check"
    /\ UNCHANGED <<panicMsg, cancelled, cancelAt, reads, buf, pending, offered, errlog, poisoned,
                   table, ghost, exportVars, traffic, capacity, ffiVars, convVars>>

\* A loop that never looks at the token.
CheckCancelKeepsReading ==
    /\ pc = "check"
    /\ pc' = "read"
    /\ buf' = <<>>
    /\ offered' = <<>>
    /\ errlog' = <<>>
    /\ UNCHANGED <<panicMsg, cancelled, cancelAt, reads, pending, lock, poisoned, table, ghost,
                   exportVars, traffic, capacity, ffiVars, convVars>>

\* consume_statsd has returned and its locals are gone;
\* spin_cancelled = self.cancel_token.is_cancelled()
CheckCancel ==
    /\ pc = "check"
    /\ pc' = IF cancelled THEN "cancelled" ELSE "read"
    /\ buf' = <<>>
    /\ offered' = <<>>
    /\ errlog' = <<>>
    /\ UNCHANGED <<panicMsg, cancelled, cancelAt, reads, pending, lock, poisoned, table, ghost,
                   exportVars, traffic, capacity, ffiVars, convVars>>

\* ---------------------------------------------------------- environment

\* A loop that races its read against the token and leaves when the token wins.
CancelInterruptsRead ==
    /\ ~cancelled
    /\ cancelled' = TRUE
    /\ cancelAt' = IF pc = "read" THEN "read" ELSE "elsewhere"
    /\ pc' = IF pc = "read" THEN "cancelled" ELSE pc
    /\ UNCHANGED <<panicMsg, reads, buf, pending, offered, errlog, traffic, capacity, ffiVars, convVars,
                   lock, poisoned, table, ghost, exportVars>>

\* The owner of the token cancels it.
Cancel ==
    /\ ~cancelled
    /\ cancelled' = TRUE
    /\ cancelAt' = IF pc = "read" THEN "read" ELSE "elsewhere"
    /\ UNCHANGED <<loopVars, ffiVars, convVars, lock, poisoned, table, ghost, exportVars>>

\* An exporter that reads the aggregator without waiting for the mutex.
ExportAcquireNoWait ==
    /\ pcE = "idle"
    /\ IF poisoned
       THEN pcE' = "dead" /\ lock' = lock
       ELSE pcE' = "locked" /\ lock' = "exporter"
    /\ UNCHANGED <<loopVars, ffiVars, convVars, cancelled, cancelAt, poisoned, table, ghost, series, sketches>>

\* The exporter: locked_aggregator.lock().expect("lock poisoned")
ExportAcquire ==
    /\ pcE = "idle"
    /\ lock = "free"
    /\ IF poisoned
       THEN pcE' = "dead" /\ lock' = lock
       ELSE pcE' = "locked" /\ lock' = "exporter"
    /\ UNCHANGED <<loopVars, ffiVars, convVars, cancelled, cancelAt, poisoned, table, ghost, series, sketches>>

\* aggregator.to_series()
ExportSeries ==
    /\ pcE \in {"locked", "sketches"}
    /\ series' = ToSeries(table)
    /\ table' = AfterExport(table)
    /\ pcE' = IF pcE = "locked" THEN "series" ELSE "both"
    /\ UNCHANGED <<loopVars, ffiVars, convVars, cancelled, cancelAt, lock, poisoned, ghost, sketches>>

\* aggregator.distributions_to_protobuf()
ExportSketches ==
    /\ pcE \in {"locked", "series"}
    /\ sketches' = DistributionsToProtobuf(table)
    /\ table' = AfterExport(table)
    /\ pcE' = IF pcE = "locked" THEN "sketches" ELSE "both"
    /\ UNCHANGED <<loopVars, ffiVars, convVars, cancelled, cancelAt, lock, poisoned, ghost, series>>

\* drop(aggregator): the snapshot leaves with the exporter.
ExportRelease ==
    /\ pcE \in {"locked", "series", "sketches", "both"}
    /\ lock' = "free"
    /\ pcE' = "idle"
    /\ series' = <<>>
    /\ sketches' = <<>>
    /\ UNCHANGED <<loopVars, ffiVars, convVars, cancelled, cancelAt, poisoned, table, ghost>>

\* The exporter panics while it holds the guard: the mutex is poisoned.
ExportPanic ==
    /\ pcE \in {"locked", "series", "sketches", "both"}
    /\ poisoned' = TRUE
    /\ lock' = "free"
    /\ pcE' = "dead"
    /\ series' = <<>>
    /\ sketches' = <<>>
    /\ UNCHANGED <<loopVars, ffiVars, convVars, cancelled, cancelAt, table, ghost>>

Next ==
    \/ \E d \in Datagrams(traffic) : Consume(d)
    \/ ReadFail
    \/ Acquire
    \/ InsertOne
    \/ Release
    \/ CheckCancel
    \/ Cancel
    \/ ExportAcquire
    \/ ExportSeries
    \/ ExportSketches
    \/ ExportRelease
    \/ ExportPanic

Spec == Init /\ [][Next]_vars

\* The loop makes progress: a read returns while datagrams arrive (the socket
\* of the model delivers MaxReads datagrams and is silent afterwards), the
\* straight-line steps between two awaits are taken, and lock() returns when
\* the lock stays free.  Nothing makes the loop win the lock from an exporter
\* that takes it again and again: a std Mutex is not fair between waiters.
LoopFairness ==
    /\ WF_vars(\E d \in Datagrams(traffic) : Consume(d))
    /\ WF_vars(Acquire)
    /\ WF_vars(InsertOne)
    /\ WF_vars(Release)
    /\ WF_vars(CheckCancel)

\* The exporter does no I/O and no unbounded work under the lock: once it has
\* the lock it lets go of it.
ExporterFairness == WF_vars(ExportRelease)

\* spin under a scheduler that runs the task and a socket that delivers.
LiveSpec == Init /\ [][Next]_vars /\ LoopFairness /\ ExporterFairness


\* ---------------------------------------------------- trace exporter FFI

dogstatsdVars ==
    <<pc, panicMsg, cancelled, cancelAt, reads, buf, pending, offered, errlog,
      lock, poisoned, table, ghost, pcE, series, sketches, traffic, capacity>>

\* fn sanitize_string(str: CharSlice) -> Result<String, Box<ExporterError>>
sanitize_string(str) ==
    IF ValidUtf8(str) THEN [ok |-> TRUE, val |-> str, code |-> "None"]
    ELSE [ok |-> FALSE, val |-> <<>>, code |-> "InvalidInput"]

\* A setter that writes through its handle without testing it.
ConfigSetUnchecked(op, field, handle, str) ==
    /\ calls < MaxCalls
    /\ handle = "valid" => config # ConfigDropped
    /\ calls' = calls + 1
    /\ LET r == sanitize_string(str)
       IN  IF r.ok
           THEN /\ config' = [config EXCEPT ![field] = Some(r.val)]
                /\ last' = [op |-> op, handle |-> handle, arg |-> str, ret |-> "None"]
           ELSE /\ config' = config
                /\ last' = [op |-> op, handle |-> handle, arg |-> str, ret |-> r.code]
    /\ UNCHANGED <<exporter, response, dogstatsdVars, convVars>>

\* A setter that starts from a fresh config each time.
ConfigSetClearsOthers(op, field, handle, str) ==
    /\ calls < MaxCalls
    /\ handle = "valid" => config # ConfigDropped
    /\ calls' = calls + 1
    /\ LET r == sanitize_string(str)
       IN  IF handle = "null"
           THEN /\ config' = config
                /\ last' = [op |-> op, handle |-> handle, arg |-> str,
                            ret |-> "InvalidArgument"]
           ELSE IF r.ok
           THEN /\ config' = [ConfigDefault EXCEPT ![field] = Some(r.val)]
                /\ last' = [op |-> op, handle |-> handle, arg |-> str, ret |-> "None"]
           ELSE /\ config' = config
                /\ last' = [op |-> op, handle |-> handle, arg |-> str, ret |-> r.code]
    /\ UNCHANGED <<exporter, response, dogstatsdVars, convVars>>

\* A setter that assigns the field before it looks at the result: a string
\* that is not UTF-8 leaves the field None.
ConfigSetResetsOnError(op, field, handle, str) ==
    /\ calls < MaxCalls
    /\ handle = "valid" => config # ConfigDropped
    /\ calls' = calls + 1
    /\ LET r == sanitize_string(str)
       IN  IF handle = "null"
           THEN /\ config' = config
                /\ last' = [op |-> op, handle |-> handle, arg |-> str,
                            ret |-> "InvalidArgument"]
           ELSE IF r.ok
           THEN /\ config' = [config EXCEPT ![field] = Some(r.val)]
                /\ last' = [op |-> op, handle |-> handle, arg |-> str, ret |-> "None"]
           ELSE /\ config' = [config EXCEPT ![field] = None]
                /\ last' = [op |-> op, handle |-> handle, arg |-> str, ret |-> r.code]
    /\ UNCHANGED <<exporter, response, dogstatsdVars, convVars>>

\* The body the nine setters share: handle.<field> = sanitize_string(str)?
\* A reference the caller hands in refers to its config, which it has not
\* freed.
ConfigSet(op, field, handle, str) ==
    /\ calls < MaxCalls
    /\ handle = "valid" => config # ConfigDropped
    /\ calls' = calls + 1
    /\ LET r == sanitize_string(str)
       IN  IF handle = "null"
           THEN /\ config' = config
                /\ last' = [op |-> op, handle |-> handle, arg |-> str,
                            ret |-> "InvalidArgument"]
           ELSE IF r.ok
           THEN /\ config' = [config EXCEPT ![field] = Some(r.val)]
                /\ last' = [op |-> op, handle |-> handle, arg |-> str, ret |-> "None"]
           ELSE /\ config' = config
                /\ last' = [op |-> op, handle |-> handle, arg |-> str, ret |-> r.code]
    /\ UNCHANGED <<exporter, response, dogstatsdVars, convVars>>

ddog_trace_exporter_config_set_url(handle, url) ==
    ConfigSet("config_set_url", "url", handle, url)

ddog_trace_exporter_config_set_tracer_version(handle, version) ==
    ConfigSet("config_set_tracer_version", "tracer_version", handle, version)

ddog_trace_exporter_config_set_language(handle, lang) ==
    ConfigSet("config_set_language", "language", handle, lang)

ddog_trace_exporter_config_set_lang_version(handle, version) ==
    ConfigSet("config_set_lang_version", "language_version", handle, version)

ddog_trace_exporter_config_set_lang_interpreter(handle, interpreter) ==
    ConfigSet("config_set_lang_interpreter", "language_interpreter", handle, interpreter)

ddog_trace_exporter_config_set_hostname(handle, hostname) ==
    ConfigSet("config_set_hostname", "hostname", handle, hostname)

ddog_trace_exporter_config_set_env(handle, env) ==
    ConfigSet("config_set_env", "env", handle, env)

ddog_trace_exporter_config_set_version(handle, version) ==
    ConfigSet("config_set_version", "version", handle, version)

ddog_trace_exporter_config_set_service(handle, service) ==
    ConfigSet("config_set_service", "service", handle, service)

\* out_handle.write(Box::default()): the caller's slot holds a fresh config,
\* whatever it held.
ddog_trace_exporter_config_new ==
    /\ calls < MaxCalls
    /\ calls' = calls + 1
    /\ config' = ConfigDefault
    /\ last' = [op |-> "config_new", handle |-> "valid", arg |-> <<>>, ret |-> "None"]
    /\ UNCHANGED <<exporter, response, dogstatsdVars, convVars>>

\* drop(handle): the caller gives its config away, which it must have.
ddog_trace_exporter_config_free ==
    /\ calls < MaxCalls
    /\ config # ConfigDropped
    /\ calls' = calls + 1
    /\ config' = ConfigDropped
    /\ last' = [op |-> "config_free", handle |-> "valid", arg |-> <<>>, ret |-> "None"]
    /\ UNCHANGED <<exporter, response, dogstatsdVars, convVars>>

\* The exporter the builder makes of a config: unset strings become "".
Built(cfg) ==
    [written |-> TRUE,
     url |-> UnwrapOrEmpty(cfg.url),
     tracer_version |-> UnwrapOrEmpty(cfg.tracer_version),
     language |-> UnwrapOrEmpty(cfg.language),
     language_version |-> UnwrapOrEmpty(cfg.language_version),
     language_interpreter |-> UnwrapOrEmpty(cfg.language_interpreter),
     hostname |-> UnwrapOrEmpty(cfg.hostname),
     env |-> UnwrapOrEmpty(cfg.env),
     app_version |-> UnwrapOrEmpty(cfg.version),
     service |-> UnwrapOrEmpty(cfg.service),
     input_format |-> cfg.input_format,
     output_format |-> cfg.output_format,
     stats |-> cfg.compute_stats]

\* The results builder.build() can give for a url: the empty url is refused
\* and "http://localhost" accepted; of another text this file tells nothing.
BuildOutcomes(url) ==
    IF url = <<>> THEN {"InvalidUrl"}
    ELSE IF url = SliceUrl THEN {"Ok"}
    ELSE {"Ok", "InvalidUrl"}

\* A constructor that writes the out-handle whatever build() returned.
NewWritesOnError(handle) ==
    /\ calls < MaxCalls
    /\ handle = "valid" => config # ConfigDropped
    /\ calls' = calls + 1
    /\ IF handle = "null"
       THEN /\ exporter' = exporter
            /\ last' = [op |-> "new", handle |-> handle, arg |-> <<>>,
                        ret |-> "InvalidArgument"]
       ELSE \E res \in BuildOutcomes(UnwrapOrEmpty(config.url)) :
               /\ exporter' = Built(config)
               /\ last' = [op |-> "new", handle |-> handle, arg |-> <<>>,
                           ret |-> IF res = "Ok" THEN "None" ELSE res]
    /\ UNCHANGED <<config, response, dogstatsdVars, convVars>>

ddog_trace_exporter_new(handle) ==
    /\ calls < MaxCalls
    /\ handle = "valid" => config # ConfigDropped
    /\ calls' = calls + 1
    /\ IF handle = "null"
       THEN /\ exporter' = exporter
            /\ last' = [op |-> "new", handle |-> handle, arg |-> <<>>,
                        ret |-> "InvalidArgument"]
       ELSE \E res \in BuildOutcomes(UnwrapOrEmpty(config.url)) :
               /\ exporter' = IF res = "Ok" THEN Built(config) ELSE exporter
               /\ last' = [op |-> "new", handle |-> handle, arg |-> <<>>,
                           ret |-> IF res = "Ok" THEN "None" ELSE res]
    /\ UNCHANGED <<config, response, dogstatsdVars, convVars>>

\* drop(handle): the caller gives away the exporter the constructor wrote.
ddog_trace_exporter_free ==
    /\ calls < MaxCalls
    /\ exporter.written
    /\ calls' = calls + 1
    /\ exporter' = ExporterDropped
    /\ last' = [op |-> "free", handle |-> "valid", arg |-> <<>>, ret |-> "None"]
    /\ UNCHANGED <<config, response, dogstatsdVars, convVars>>

\* The rate an agent answers with.
AgentRate == 1

\* The results exporter.send() can give: the agent's response, or an error,
\* which ExporterError::from turns into a code of its own.
SendOutcomes == {"Ok", "SendError"}

\* handle: the exporter, result: the optional AgentResponse to fill.  A
\* non-null handle is one that ddog_trace_exporter_new has written and that was
\* not freed since.
ddog_trace_exporter_send(handle, result) ==
    /\ calls < MaxCalls
    /\ handle = "valid" => exporter.written
    /\ calls' = calls + 1
    /\ IF handle = "null"
       THEN /\ response' = response
            /\ last' = [op |-> "send", handle |-> handle, arg |-> result,
                        ret |-> "InvalidArgument"]
       ELSE \E res \in SendOutcomes :
               /\ response' = IF res = "Ok" /\ result = "valid"
                               THEN [rate |-> AgentRate] ELSE response
               /\ last' = [op |-> "send", handle |-> handle, arg |-> result,
                           ret |-> IF res = "Ok" THEN "None" ELSE res]
    /\ UNCHANGED <<config, exporter, dogstatsdVars, convVars>>

\* The ingestion loop is not part of a run of the FFI caller: no traffic, an
\* empty aggregator, nothing read.
FfiInit ==
    /\ pc = "read"
    /\ panicMsg = ""
    /\ cancelled = FALSE
    /\ cancelAt = "none"
    /\ reads = 0
    /\ buf = <<>>
    /\ pending = <<>>
    /\ offered = <<>>
    /\ errlog = <<>>
    /\ lock = "free"
    /\ poisoned = FALSE
    /\ table = <<>>
    /\ ghost = NoGhost
    /\ pcE = "idle"
    /\ series = <<>>
    /\ sketches = <<>>
    /\ traffic = {}
    /\ capacity = MaxCapacity
    /\ FfiStart
    /\ ConvIdle

FfiNext ==
    \/ ddog_trace_exporter_config_new
    \/ ddog_trace_exporter_config_free
    \/ ddog_trace_exporter_free
    \/ \E h \in Handles, str \in CharSlices : ddog_trace_exporter_config_set_url(h, str)
    \/ \E h \in Handles, str \in CharSlices :
          ddog_trace_exporter_config_set_tracer_version(h, str)
    \/ \E h \in Handles, str \in CharSlices : ddog_trace_exporter_config_set_language(h, str)
    \/ \E h \in Handles, str \in CharSlices :
          ddog_trace_exporter_config_set_lang_version(h, str)
    \/ \E h \in Handles, str \in CharSlices :
          ddog_trace_exporter_config_set_lang_interpreter(h, str)
    \/ \E h \in Handles, str \in CharSlices : ddog_trace_exporter_config_set_hostname(h, str)
    \/ \E h \in Handles, str \in CharSlices : ddog_trace_exporter_config_set_env(h, str)
    \/ \E h \in Handles, str \in CharSlices : ddog_trace_exporter_config_set_version(h, str)
    \/ \E h \in Handles, str \in CharSlices : ddog_trace_exporter_config_set_service(h, str)
    \/ \E h \in Handles : ddog_trace_exporter_new(h)
    \/ \E h \in Handles, r \in Handles : ddog_trace_exporter_send(h, r)

FfiSpec == FfiInit /\ [][FfiNext]_vars

\* ------------------------------------------------- header conversions

\* The ingestion loop and the FFI caller at rest.
OthersIdle ==
    /\ pc = "read"
    /\ panicMsg = ""
    /\ cancelled = FALSE
    /\ cancelAt = "none"
    /\ reads = 0
    /\ buf = <<>>
    /\ pending = <<>>
    /\ offered = <<>>
    /\ errlog = <<>>
    /\ lock = "free"
    /\ poisoned = FALSE
    /\ table = <<>>
    /\ ghost = NoGhost
    /\ pcE = "idle"
    /\ series = <<>>
    /\ sketches = <<>>
    /\ traffic = {}
    /\ capacity = MaxCapacity
    /\ FfiStart

\* let map: HashMap<&'static str, String> = header_tags.into();
ConvertTags ==
    /\ ~mapOut.done
    /\ mapOut' = [done |-> TRUE, map |-> TagsToHashMap(tagsIn)]
    /\ UNCHANGED <<tagsIn, headersIn, tagsOut, profileIn, replayerOut, dogstatsdVars, ffiVars>>

\* let tags: TracerHeaderTags = (&header_map).into();
ConvertHeaders ==
    /\ ~tagsOut.done
    /\ tagsOut' = [done |-> TRUE, tags |-> HeaderMapToTags(headersIn)]
    /\ UNCHANGED <<tagsIn, headersIn, mapOut, profileIn, replayerOut, dogstatsdVars, ffiVars>>

\* A run converts one TracerHeaderTags and one HeaderMap, one of the two
\* drawn from the inputs.
HeaderInit ==
    /\ OthersIdle
    /\ \/ tagsIn \in TagsInputs /\ headersIn = NoHeaders
       \/ tagsIn = TagsDefault /\ headersIn \in HeaderMaps
    /\ mapOut = NotConverted
    /\ tagsOut = NotConverted
    /\ ReplayIdle

HeaderNext == ConvertTags \/ ConvertHeaders

HeaderSpec == HeaderInit /\ [][HeaderNext]_vars

\* ------------------------------------------------------ profile replay

\* A u64 is written as four limbs of 16 bits, most significant first.
Limb == 65536

\* std::mem::transmute::<i64, u64>(num): the two's complement bits of num read
\* as an unsigned number, for a num of less than one limb either way.
Transmute(num) ==
    IF num >= 0
    THEN <<0, 0, 0, num>>
    ELSE <<Limb - 1, Limb - 1, Limb - 1, Limb + num>>

\* Err(..) of an anyhow::Result
Failed == [ok |-> FALSE]

\* The api::Label of a pprof label: its strings looked up in the string
\* table, str and num_unit absent when their index is 0.
Label(label) ==
    LET key == get_string(label.key)
        str == get_string(label.str)
        num_unit == get_string(label.num_unit)
    IN  IF \/ ~key.ok
           \/ (label.str # 0 /\ ~str.ok)
           \/ (label.num_unit # 0 /\ ~num_unit.ok)
        THEN Failed
        ELSE [ok |-> TRUE,
              val |-> [key |-> key.val,
                       str |-> IF label.str = 0 THEN None ELSE Some(str.val),
                       num |-> label.num,
                       num_unit |-> IF label.num_unit = 0 THEN None ELSE Some(num_unit.val)]]

\* labels.iter().find(|label| label.key == key): the position of the first
\* label with the key, 0 when there is none.
FindKey(labels, key) ==
    LET hits == {i \in 1..Len(labels) : labels[i].key = key}
    IN  IF hits = {} THEN 0 ELSE CHOOSE i \in hits : \A j \in hits : i <= j

\* A retain that keeps every label.
RetainEveryLabel(labels) == labels

\* labels.retain(|label| label.key != "trace endpoint")
RetainLabels(labels) == SelectSeq(labels, LAMBDA label : label.key # "trace endpoint")

\* Replayer::sample_labels: the labels of the sample without its trace
\* endpoint labels, and the endpoint of the sample if it has both a local
\* root span id and a trace endpoint.
sample_labels(sample) ==
    LET made == [i \in 1..Len(sample.labels) |-> Label(sample.labels[i])]
    IN  IF \E i \in 1..Len(made) : ~made[i].ok
        THEN Failed
        ELSE LET labels == [i \in 1..Len(made) |-> made[i].val]
                 lrsi == FindKey(labels, "local root span id")
                 endpoint == FindKey(labels, "trace endpoint")
             IN  IF lrsi # 0 /\ endpoint # 0
                 THEN LET local_root_span_id == Transmute(labels[lrsi].num)
                      IN  IF local_root_span_id = <<0, 0, 0, 0>>
                          THEN Failed
                          ELSE IF ~labels[endpoint].str.some
                          THEN Failed
                          ELSE [ok |-> TRUE,
                                labels |-> RetainLabels(labels),
                                endpoint |-> Some(<<local_root_span_id,
                                                    labels[endpoint].str.val>>)]
                 ELSE [ok |-> TRUE, labels |-> RetainLabels(labels), endpoint |-> None]

\* Replayer::sample_locations: the locations of the ids of the sample; the
\* profiles replayed have no location table, so every id is unknown.
sample_locations(sample) ==
    IF sample.location_ids = <<>> THEN [ok |-> TRUE, val |-> <<>>] ELSE Failed

\* The loop of Replayer::samples over the samples still to take.
RECURSIVE SamplesFrom(_, _, _)
SamplesFrom(rest, samples, endpoints) ==
    IF rest = <<>>
    THEN [ok |-> TRUE, samples |-> samples, endpoints |-> endpoints]
    ELSE LET sample == Head(rest)
             made == sample_labels(sample)
             locations == sample_locations(sample)
         IN  IF ~made.ok \/ ~locations.ok
             THEN Failed
             ELSE SamplesFrom(Tail(rest),
                              Append(samples, [locations |-> locations.val,
                                               values |-> sample.values,
                                               labels |-> made.labels]),
                              IF made.endpoint.some
                              THEN Append(endpoints, made.endpoint.val)
                              ELSE endpoints)

\* UNIX_EPOCH, the time that times are counted from, in nanoseconds.
UnixEpoch == 0

\* Replayer::system_time_add: a negative ns is taken off, as its magnitude.
system_time_add(system_time, ns) ==
    IF ns < 0 THEN system_time - (0 - ns) ELSE system_time + ns

\* Replayer::start_time
start_time(pprof) == system_time_add(UnixEpoch, pprof.time_nanos)

\* Replayer::duration: a negative duration does not fit a u64.
duration(pprof) ==
    IF pprof.duration_nanos >= 0
    THEN [ok |-> TRUE, val |-> pprof.duration_nanos]
    ELSE Failed

\* The api::ValueType of a pprof value type: both strings looked up.
ValueType(vt) ==
    LET type == get_string(vt.type)
        unit == get_string(vt.unit)
    IN  IF ~type.ok \/ ~unit.ok THEN Failed
        ELSE [ok |-> TRUE, val |-> [type |-> type.val, unit |-> unit.val]]

\* Replayer::sample_types
sample_types(pprof) ==
    LET made == [i \in 1..Len(pprof.sample_types) |-> ValueType(pprof.sample_types[i])]
    IN  IF \E i \in 1..Len(made) : ~made[i].ok THEN Failed
        ELSE [ok |-> TRUE, val |-> [i \in 1..Len(made) |-> made[i].val]]

\* Replayer::period: the period with its type, None without a period type.
period(pprof) ==
    IF pprof.period_type.some
    THEN LET type == ValueType(pprof.period_type.val)
         IN  IF ~type.ok THEN Failed
             ELSE [ok |-> TRUE, val |-> Some([type |-> type.val, value |-> pprof.period])]
    ELSE [ok |-> TRUE, val |-> None]

\* The results ProfileIndex::try_from can give: of what it refuses this file
\* tells nothing.
ProfileIndexOutcomes == {"Ok", "Err"}

\* Replayer::try_from(&pprof), index being what ProfileIndex::try_from gave.
try_from(pprof, index) ==
    LET d == duration(pprof)
        types == sample_types(pprof)
        per == period(pprof)
        made == SamplesFrom(pprof.samples, <<>>, <<>>)
    IN  IF index # "Ok" \/ ~d.ok \/ ~types.ok \/ ~per.ok \/ ~made.ok
        THEN Failed
        ELSE [ok |-> TRUE,
              start_time |-> start_time(pprof),
              duration |-> d.val,
              end_time |-> start_time(pprof) + d.val,
              sample_types |-> types.val,
              period |-> per.val,
              endpoints |-> made.endpoints,
              samples |-> made.samples]

\* let replayer = Replayer::try_from(&pprof);
Replay ==
    /\ ~replayerOut.done
    /\ \E index \in ProfileIndexOutcomes :
          replayerOut' = [done |-> TRUE, result |-> try_from(profileIn, index)]
    /\ UNCHANGED <<tagsIn, headersIn, mapOut, tagsOut, profileIn, dogstatsdVars, ffiVars>>

\* A run replays one profile drawn from the inputs.
ReplayInit ==
    /\ OthersIdle
    /\ tagsIn = TagsDefault
    /\ headersIn = NoHeaders
    /\ mapOut = NotConverted
    /\ tagsOut = NotConverted
    /\ profileIn \in Profiles
    /\ replayerOut = NotConverted

ReplayNext == Replay

ReplaySpec == ReplayInit /\ [][ReplayNext]_vars

\* ------------------------------------------------------------ properties

\* The identities the table tracks.
Ids(t) == {<<t[i].name, t[i].tags>> : i \in 1..Len(t)}

\* The entry tracking identity id.
EntryOf(t, id) == t[Find(t, id)]

\* A step that is one call of Aggregator::insert, of the metric Head(pending).
InsertStep == pc = "insert" /\ pending # <<>> /\ pending' = Tail(pending)

\* The result the insert of this step returned.
InsertResult == offered'[Len(offered')].res

\* The lines of the datagram being processed.
BufLines == SplitOn(buf, NL)

\* A line the frame filter is to drop.
Droppable(l) ==
    l = <<>> \/ StartsWith(l, ServiceCheckPrefix) \/ StartsWith(l, EventPrefix)

\* A datagram was decoded and is being, or has just been, processed.
Processing == pc \in {"lock", "insert", "check"}

\* The positions of the records of rs that carry the name and tags of entry e.
RecordsOf(rs, e) ==
    {j \in 1..Len(rs) : rs[j].name = e.name /\ rs[j].tags = ExportTags(e)}

\* C1: whatever inserts (successful or failed) and exports have happened, the
\* aggregator tracks at most as many distinct identities as its capacity.
C1_CapacityBound == Cardinality(Ids(table)) <= capacity

\* C1 witness: the table is full and an insert has been refused.
C1_Witness ==
    /\ Cardinality(Ids(table)) = capacity
    /\ \E i \in 1..Len(offered) : offered[i].res = "Overflow"

\* C2: with exactly capacity identities tracked, inserting an untracked identity
\* returns the capacity error and leaves the table as it was, and inserting a
\* tracked identity succeeds.
C2_FullTable ==
    [][(InsertStep /\ Cardinality(Ids(table)) = capacity) =>
          IF Id(Head(pending)) \in Ids(table)
          THEN InsertResult = "Ok"
          ELSE InsertResult = "Overflow" /\ table' = table]_vars

\* C2 witness: in one datagram, an insert was refused and a later one succeeded
\* while the table stayed full.
C2_Witness ==
    /\ Cardinality(Ids(table)) = capacity
    /\ \E i, j \in 1..Len(offered) :
          i < j /\ offered[i].res = "Overflow" /\ offered[j].res = "Ok"

\* C3: inserting a metric whose identity is tracked succeeds, keeps the set of
\* tracked identities and leaves the entry of every other identity unchanged.
C3_TrackedInsertFrame ==
    [][(InsertStep /\ Id(Head(pending)) \in Ids(table)) =>
          /\ InsertResult = "Ok"
          /\ Len(table') = Len(table)
          /\ Ids(table') = Ids(table)
          /\ \A id \in Ids(table) \ {Id(Head(pending))} :
                EntryOf(table', id) = EntryOf(table, id)]_vars

\* C3 witness: a tracked identity was inserted again while another identity of
\* the same name is tracked too.
C3_Witness ==
    /\ Len(table) >= 2
    /\ table[1].name = table[2].name
    /\ \E i \in 1..Len(offered) :
          /\ offered[i].res = "Ok"
          /\ Less(offered[i].metric.value, ghost[Id(offered[i].metric)].sum)

\* The exporter holds a snapshot made by to_series under the guard it has.
SeriesTaken == pcE \in {"series", "both"}

\* The exporter holds one made by distributions_to_protobuf.
SketchesTaken == pcE \in {"sketches", "both"}

\* C4: to_series exports every Counter identity as exactly one record, whose
\* value is the sum of the values inserted successfully for that identity.
C4_CounterSums ==
    SeriesTaken =>
        \A i \in 1..Len(table) :
            table[i].kind = "Counter" =>
                /\ Cardinality(RecordsOf(series, table[i])) = 1
                /\ \A j \in RecordsOf(series, table[i]) :
                      series[j].value = ghost[<<table[i].name, table[i].tags>>].sum

\* C4 witness: 1.5 was inserted twice for a counter, exported as 3.
C4_Witness ==
    /\ pcE = "series"
    /\ \E i \in 1..Len(table) :
          /\ table[i].kind = "Counter"
          /\ ghost[<<table[i].name, table[i].tags>>] = [sum |-> Whole(3), last |-> Decimal(1, <<5>>)]
          /\ \E j \in 1..Len(series) : series[j].name = table[i].name /\ series[j].value = Whole(3)

\* C5: to_series exports a Gauge identity with the value of the most recent
\* successful insert for it.
C5_GaugeLast ==
    SeriesTaken =>
        \A i \in 1..Len(table) :
            table[i].kind = "Gauge" =>
                \A j \in RecordsOf(series, table[i]) :
                    series[j].value = ghost[<<table[i].name, table[i].tags>>].last

\* C5 witness: a gauge inserted with 2 and then 1 is exported as 1.
C5_Witness ==
    /\ pcE = "series"
    /\ \E i \in 1..Len(table) :
          /\ table[i].kind = "Gauge"
          /\ ghost[<<table[i].name, table[i].tags>>] = [sum |-> Whole(3), last |-> Whole(1)]
          /\ \E j \in RecordsOf(series, table[i]) : series[j].value = Whole(1)

\* A step of the exporter that calls to_series or distributions_to_protobuf.
ExportStep ==
    /\ pcE \in {"locked", "series", "sketches"}
    /\ pcE' \in {"series", "sketches", "both"}
    /\ pcE' # pcE

\* C6: an export leaves the table as it was, so exporting again with no insert
\* in between returns the same records.
C6_ExportsReadOnly ==
    /\ [][ExportStep => table' = table]_vars
    /\ [](SeriesTaken => series = ToSeries(table))
    /\ [](SketchesTaken => sketches = DistributionsToProtobuf(table))

\* C6 witness: both exports were taken of a table holding scalar and
\* distribution entries, and the entries are still tracked.
C6_Witness ==
    /\ pcE = "both"
    /\ series # <<>>
    /\ sketches # <<>>
    /\ Len(table) = Len(series) + Len(sketches)

\* C7: every tracked Counter or Gauge identity gives exactly one series record
\* and no sketch record, every tracked Distribution identity exactly one sketch
\* record and no series record, and the exports hold nothing else.
C7_ExportPartition ==
    pcE = "both" =>
        /\ \A i \in 1..Len(table) :
              IF table[i].kind = "Distribution"
              THEN /\ Cardinality(RecordsOf(sketches, table[i])) = 1
                   /\ RecordsOf(series, table[i]) = {}
              ELSE /\ Cardinality(RecordsOf(series, table[i])) = 1
                   /\ RecordsOf(sketches, table[i]) = {}
        /\ Len(series) + Len(sketches) = Len(table)

\* C7 witness: a table of distributions only is exported as that many sketches
\* and an empty series.
C7_Witness ==
    /\ pcE = "both"
    /\ table # <<>>
    /\ \A i \in 1..Len(table) : table[i].kind = "Distribution"
    /\ Len(sketches) = Len(table)
    /\ series = <<>>

\* C8: an empty line, a service check or an event is never parsed: it is not
\* logged as a parse failure, gives no insert, and no export record stems from it.
C8_DroppedLinesNeverParsed ==
    /\ \A i \in 1..Len(errlog) : ~Droppable(errlog[i])
    /\ Processing =>
          Len(errlog) + Len(offered) + Len(pending)
              = Cardinality({i \in 1..Len(BufLines) : ~Droppable(BufLines[i])})
    /\ \A i \in 1..Len(table) :
          /\ ~StartsWith(table[i].name, EventPrefix)
          /\ ~StartsWith(table[i].name, ServiceCheckPrefix)
    /\ \A j \in 1..Len(series) : ~StartsWith(series[j].name, EventPrefix)
    /\ \A j \in 1..Len(sketches) : ~StartsWith(sketches[j].name, EventPrefix)

\* C8 witness: a datagram holding an event or a service check next to a metric
\* has been processed, and the metric was inserted.
C8_Witness ==
    /\ pc = "check"
    /\ \E i \in 1..Len(BufLines) : BufLines[i] # <<>> /\ Droppable(BufLines[i])
    /\ offered # <<>>
    /\ errlog = <<>>

\* C9: a line that fails to parse is logged and skipped; every other line of
\* the datagram that parses is still passed to the aggregator, wherever the
\* malformed line stands.
C9_ParseFailureSkipsLine ==
    Processing =>
        /\ \A i \in 1..Len(BufLines) :
              (~Droppable(BufLines[i]) /\ ~ParsesOk(BufLines[i])) =>
                  \E j \in 1..Len(errlog) : errlog[j] = BufLines[i]
        /\ Len(offered) + Len(pending)
              = Cardinality({i \in 1..Len(BufLines) :
                               ~Droppable(BufLines[i]) /\ ParsesOk(BufLines[i])})
        /\ pc = "check" =>
              /\ pending = <<>>
              /\ \A i \in 1..Len(BufLines) :
                    (~Droppable(BufLines[i]) /\ ParsesOk(BufLines[i])) =>
                        \E j \in 1..Len(offered) :
                            offered[j].metric = MetricOf(Parse(BufLines[i]))

\* C9 witness: the first line of a datagram failed to parse and a later line
\* was inserted.
C9_Witness ==
    /\ pc = "check"
    /\ Len(BufLines) >= 2
    /\ ~Droppable(BufLines[1]) /\ ~ParsesOk(BufLines[1])
    /\ errlog # <<>>
    /\ \E j \in 1..Len(offered) : offered[j].res = "Ok"

\* C10: a datagram that is not valid UTF-8 is dropped with nothing inserted,
\* and the loop stays Running, on its way to the next read.
C10_InvalidUtf8Dropped ==
    (reads > 0 /\ ~ValidUtf8(buf)) =>
        /\ pc = "check"
        /\ panicMsg = ""
        /\ pending = <<>>
        /\ offered = <<>>

\* The transport has failed under a read of the loop.
ReadFailed == pc = "panicked" /\ panicMsg = "didn't receive data"

\* C11: a failed read ends the loop: the failing step leaves the aggregator as
\* it was, and from then on the loop reads nothing, inserts nothing and the
\* aggregator keeps its state.
C11_ReadFailureTerminates ==
    /\ [][(pc = "read" /\ panicMsg' = "didn't receive data") =>
            pc' = "panicked" /\ table' = table /\ reads' = reads]_vars
    /\ [][ReadFailed => UNCHANGED <<loopVars, table, ghost>>]_vars

\* C11 witness: the read failed after a datagram had been aggregated.
C11_Witness ==
    /\ ReadFailed
    /\ reads >= 1
    /\ table # <<>>
    /\ pcE = "series"

\* C12: the loop starts Running; it moves to Cancelled only from the check
\* that follows a fully processed datagram, does so whenever that check finds
\* the token cancelled, and once Cancelled reads and inserts nothing more.
C12_CancelledIsTerminal ==
    /\ [](reads = 0 => pc \in {"read", "panicked"})
    /\ [][(pc # "cancelled" /\ pc' = "cancelled") =>
            /\ pc = "check" /\ cancelled
            /\ reads >= 1 /\ pending = <<>> /\ lock # "loop"]_vars
    /\ [][(pc = "check" /\ cancelled /\ pc' # pc) => pc' = "cancelled"]_vars
    /\ [][pc = "cancelled" => UNCHANGED <<loopVars, table, ghost>>]_vars

\* C12 witness: the loop is Cancelled after one datagram, with reads to spare,
\* and an exporter is at work on what it aggregated.
C12_Witness ==
    /\ pc = "cancelled"
    /\ reads = 1
    /\ table # <<>>
    /\ pcE = "series"


\* The metrics of the lines of the datagram in buf that pass the frame filter
\* and parse, in the order of the lines.
BufMetrics ==
    LET kept == SelectSeq(BufLines, LAMBDA l : ~Droppable(l) /\ ParsesOk(l))
    IN  [i \in 1..Len(kept) |-> MetricOf(Parse(kept[i]))]

\* The metrics passed to insert so far for the datagram in buf.
OfferedMetrics == [i \in 1..Len(offered) |-> offered[i].metric]

\* The token was cancelled while the loop was awaiting a read.
CancelledInRead == cancelled /\ cancelAt = "read"

\* C13: a cancellation that arrives while a read is pending does not end the
\* loop there: the loop leaves the read only with the datagram it returns (or
\* on its failure), that datagram is filtered, parsed and inserted like any
\* other, and the check after it ends the loop without another read.
C13_CancelDoesNotInterruptRead ==
    /\ [][(pc = "read" /\ pc' # pc) =>
            /\ pc' # "cancelled"
            /\ reads' = reads + 1 \/ pc' = "panicked"]_vars
    /\ []((CancelledInRead /\ Processing) => OfferedMetrics \o pending = BufMetrics)
    /\ []((CancelledInRead /\ pc = "check") => pending = <<>>)
    /\ [][(CancelledInRead /\ Processing) => reads' = reads]_vars
    /\ [][(CancelledInRead /\ pc = "check" /\ pc' # pc) => pc' = "cancelled"]_vars

\* C13 witness: the token was cancelled during the second read, the datagram
\* that read returned was inserted, and the loop then ended.
C13_Witness ==
    /\ CancelledInRead
    /\ pc = "cancelled"
    /\ reads = 2
    /\ \E id \in DOMAIN ghost : Less(ghost[id].last, ghost[id].sum)

\* The loop takes the aggregator lock.
LoopAcquires == lock # "loop" /\ lock' = "loop"

\* The loop gives the aggregator lock back.
LoopReleases == lock = "loop" /\ lock' # "loop"

\* C14: the loop takes the lock once per datagram, before the first insert of
\* the datagram, and gives it back after the last, so whenever an exporter
\* takes its snapshot either none or all of the metrics of the datagram in
\* hand have been inserted.
C14_DatagramAtomic ==
    /\ [][LoopAcquires => offered = <<>> /\ pending = BufMetrics]_vars
    /\ [][LoopReleases => pending = <<>> /\ OfferedMetrics = BufMetrics]_vars
    /\ [][ExportStep => (offered = <<>> \/ pending = <<>>)]_vars
    /\ [](pcE \in {"locked", "series", "sketches", "both"} =>
              (offered = <<>> \/ pending = <<>>))

\* C14 witness: an exporter holds a snapshot taken while the loop waits for
\* the lock with a datagram of two metrics, none of them inserted.
C14_Witness ==
    /\ pcE = "series"
    /\ pc = "lock"
    /\ Len(pending) = 2
    /\ offered = <<>>
    /\ series = ToSeries(table)
    /\ table # <<>>

\* The loop is inside the block that owns the guard.
LoopInGuard == pc = "insert"

\* The exporter is between its lock() and the drop of its guard.
ExporterInGuard == pcE \in {"locked", "series", "sketches", "both"}

\* C15: every insert is made by the loop while it holds the lock, every export
\* snapshot is taken by the exporter while it holds the lock, and the loop and
\* the exporter are never inside their guarded blocks at the same time.
C15_MutualExclusion ==
    /\ [][InsertStep => lock = "loop" /\ lock' = "loop"]_vars
    /\ [][table' # table => lock = "loop"]_vars
    /\ [][ExportStep => lock = "exporter" /\ lock' = "exporter"]_vars
    /\ [](LoopInGuard <=> lock = "loop")
    /\ [](ExporterInGuard <=> lock = "exporter")
    /\ [](~(LoopInGuard /\ ExporterInGuard))

\* C15 witness: the exporter holds the lock with a snapshot taken while the
\* loop, a datagram in hand, waits for it.
C15_Witness ==
    /\ lock = "exporter"
    /\ pcE = "both"
    /\ pc = "lock"
    /\ pending # <<>>
    /\ series # <<>>

\* The positions of the lines of the datagram in buf that give a metric.
MetricLines == {i \in 1..Len(BufLines) : ~Droppable(BufLines[i]) /\ ParsesOk(BufLines[i])}

\* The number of metric lines up to line i.
Rank(i) == Cardinality({j \in MetricLines : j <= i})

\* The positions of the inserts made for identity id in the datagram in hand.
OffersOf(id) == {j \in 1..Len(offered) : Id(offered[j].metric) = id}

\* C16: the k-th insert of a datagram is of the metric of its k-th metric
\* line, so that a Gauge entry holds the value of the latest line inserted for
\* it, and every metric of a datagram has been passed to insert before the next
\* datagram is read.
C16_LineOrder ==
    /\ [](Processing =>
            /\ Len(offered) + Len(pending) = Cardinality(MetricLines)
            /\ \A i \in MetricLines :
                  (OfferedMetrics \o pending)[Rank(i)] = MetricOf(Parse(BufLines[i])))
    /\ [](\A id \in Ids(table) :
            (EntryOf(table, id).kind = "Gauge" /\ OffersOf(id) # {}) =>
                \E j \in OffersOf(id) :
                    /\ \A k \in OffersOf(id) : k <= j
                    /\ EntryOf(table, id).value = offered[j].metric.value)
    /\ [][reads' # reads => pc = "read" /\ pending = <<>>]_vars
    /\ [][table' # table => pending # <<>> /\ Len(offered') = Len(offered) + 1]_vars

\* C16 witness: a datagram carried the gauge b twice, 2 on its first line and
\* 1 on its second; both were inserted and the entry holds 1.
C16_Witness ==
    /\ pc = "check"
    /\ BufLines = <<LineB2g, LineB1g>>
    /\ Len(offered) = 2
    /\ offered[1].metric.value = Whole(2)
    /\ offered[2].metric.value = Whole(1)
    /\ \E i \in 1..Len(table) : table[i].kind = "Gauge" /\ table[i].value = Whole(1)

\* An insert of the datagram in hand was refused for capacity.
SomeOverflow == \E j \in 1..Len(offered) : offered[j].res = "Overflow"

\* C17: an insert refused for capacity changes nothing but the fate of its own
\* observation: the loop goes on to the next metric of the datagram, every
\* metric of the datagram is offered, those of tracked identities are accepted,
\* and the loop then checks the token and, if not cancelled, reads again.
C17_OverflowDropsOneObservation ==
    /\ [][(InsertStep /\ Id(Head(pending)) \notin Ids(table)
               /\ Cardinality(Ids(table)) >= capacity) =>
            /\ table' = table
            /\ pc' = "insert" /\ panicMsg' = "" /\ lock' = "loop"
            /\ pending' = Tail(pending)
            /\ offered' = Append(offered, [metric |-> Head(pending), res |-> "Overflow"])]_vars
    /\ [][(InsertStep /\ SomeOverflow /\ Id(Head(pending)) \in Ids(table)) =>
            InsertResult = "Ok"]_vars
    /\ []((pc = "check" /\ SomeOverflow) =>
            pending = <<>> /\ Len(offered) = Cardinality(MetricLines))
    /\ [][(pc = "check" /\ SomeOverflow /\ ~cancelled /\ pc' # pc) => pc' = "read"]_vars

\* C17 witness: the first metric of the second datagram was refused, the
\* second one, of a tracked identity, was accepted, and the token is not
\* cancelled.
C17_Witness ==
    /\ pc = "check"
    /\ ~cancelled
    /\ reads = 2
    /\ Len(offered) = 2
    /\ offered[1].res = "Overflow"
    /\ offered[2].res = "Ok"
    /\ Id(offered[2].metric) \in Ids(table)

\* The loop found the mutex poisoned.
PoisonPanic == pc = "panicked" /\ panicMsg = "lock poisoned"

\* C18: once the lock is poisoned it stays so and nothing is inserted any
\* more; the loop, when it next wants the lock, ends there, with nothing of the
\* datagram in hand inserted, and neither reads nor inserts afterwards.
C18_PoisonIsFatal ==
    /\ [][poisoned => poisoned' /\ table' = table /\ Len(offered') <= Len(offered)]_vars
    /\ [][(pc = "lock" /\ poisoned /\ pc' # pc) =>
            /\ pc' = "panicked" /\ panicMsg' = "lock poisoned"
            /\ pending' = pending /\ lock' = lock]_vars
    /\ [][PoisonPanic => UNCHANGED <<loopVars, table, ghost>>]_vars
    /\ [](PoisonPanic => poisoned /\ offered = <<>> /\ pending = BufMetrics /\ lock # "loop")

\* C18 witness: an exporter failed holding the lock after a first datagram was
\* aggregated, and the loop ended on the lock with the second datagram.
C18_Witness ==
    /\ PoisonPanic
    /\ reads = 2
    /\ Len(pending) = 2
    /\ table # <<>>
    /\ pcE = "dead"

\* A step that is one call of the trace exporter FFI.
FfiCall == calls' = calls + 1

\* C20: a setter, ddog_trace_exporter_new or ddog_trace_exporter_send called
\* with a null handle returns the InvalidArgument error and leaves the config,
\* the exporter out-handle and the AgentResponse as they were.
C20_NullHandleRejected ==
    [][(FfiCall /\ last'.handle = "null") =>
          /\ last'.ret = "InvalidArgument"
          /\ config' = config
          /\ exporter' = exporter
          /\ response' = response]_vars

\* C20 witness: send was called with a null exporter and a response to fill,
\* after a setter had set a field, and the response is still the caller's.
C20_Witness ==
    /\ last = [op |-> "send", handle |-> "null", arg |-> "valid", ret |-> "InvalidArgument"]
    /\ config # ConfigDropped
    /\ config.service = Some(SliceVersion)
    /\ response = ResponseDefault
    /\ exporter = Uninit

\* The config field a setter writes, by the name of the operation.
FieldOf(op) ==
    CASE op = "config_set_url" -> "url"
      [] op = "config_set_tracer_version" -> "tracer_version"
      [] op = "config_set_language" -> "language"
      [] op = "config_set_lang_version" -> "language_version"
      [] op = "config_set_lang_interpreter" -> "language_interpreter"
      [] op = "config_set_hostname" -> "hostname"
      [] op = "config_set_env" -> "env"
      [] op = "config_set_version" -> "version"
      [] op = "config_set_service" -> "service"

SetterOps ==
    {"config_set_url", "config_set_tracer_version", "config_set_language",
     "config_set_lang_version", "config_set_lang_interpreter", "config_set_hostname",
     "config_set_env", "config_set_version", "config_set_service"}

\* A step that is a call of a setter on the caller's config.
SetterCall == FfiCall /\ last'.op \in SetterOps /\ last'.handle = "valid"

\* C21: ddog_trace_exporter_config_new leaves the default config; a setter
\* called on the config with a UTF-8 string returns no error and sets its own
\* field to Some(that string), every other field staying as it was; and no
\* other call but config_new and config_free changes the config, so after
\* setter calls each field holds the string of the last such call of its
\* setter, or None.
C21_SetterSetsOwnField ==
    /\ [](calls = 0 => config = ConfigDefault)
    /\ [][(FfiCall /\ last'.op = "config_new") => config' = ConfigDefault]_vars
    /\ [][(SetterCall /\ ValidUtf8(last'.arg)) =>
            /\ last'.ret = "None"
            /\ config' = [config EXCEPT ![FieldOf(last'.op)] = Some(last'.arg)]]_vars
    /\ [][config' # config =>
            \/ SetterCall /\ ValidUtf8(last'.arg) /\ last'.ret = "None"
            \/ FfiCall /\ last'.op \in {"config_new", "config_free"}]_vars

\* C21 witness: three setters were called, the last one set_url with "1.0";
\* their three fields hold what they were given and the others are None.
C21_Witness ==
    /\ calls = 3
    /\ last = [op |-> "config_set_url", handle |-> "valid", arg |-> SliceVersion,
               ret |-> "None"]
    /\ config = [ConfigDefault EXCEPT !.url = Some(SliceVersion),
                                      !.service = Some(SliceUrl),
                                      !.env = Some(SliceVersion)]

\* C22: a setter called on the caller's config with a string that is not
\* UTF-8 returns the InvalidInput error and leaves every field of the config,
\* its own included, as it was.
C22_InvalidInputKeepsConfig ==
    [][(SetterCall /\ ~ValidUtf8(last'.arg)) =>
          last'.ret = "InvalidInput" /\ config' = config]_vars

\* C22 witness: set_service was refused a string that is not UTF-8 after it
\* had set the service, and the service is still set.
C22_Witness ==
    /\ last = [op |-> "config_set_service", handle |-> "valid", arg |-> SliceInvalid,
               ret |-> "InvalidInput"]
    /\ config.service = Some(SliceUrl)

\* A step that is a call of ddog_trace_exporter_new on the caller's config.
NewCall == FfiCall /\ last'.op = "new" /\ last'.handle = "valid"

\* C23: ddog_trace_exporter_new on a config without url returns InvalidUrl and
\* leaves the out-handle as it was, whatever the other fields; on a config
\* whose url is "http://localhost" it returns no error and writes the exporter
\* built from the config; the config is the same after the call.
C23_NewNeedsUrl ==
    /\ [][(NewCall /\ ~config.url.some) =>
            last'.ret = "InvalidUrl" /\ exporter' = exporter]_vars
    /\ [][(NewCall /\ config.url = Some(SliceUrl)) =>
            /\ last'.ret = "None"
            /\ exporter' = Built(config)
            /\ exporter'.written /\ exporter'.url = SliceUrl]_vars
    /\ [][NewCall => config' = config]_vars

\* C23 witness: the constructor was refused a config that has a service and a
\* hostname but no url, and the out-handle is still unwritten.
C23_Witness ==
    /\ last = [op |-> "new", handle |-> "valid", arg |-> <<>>, ret |-> "InvalidUrl"]
    /\ config.service = Some(SliceVersion)
    /\ config.hostname = Some(SliceUrl)
    /\ ~config.url.some
    /\ exporter = Uninit

\* C24: the HashMap made of a TracerHeaderTags holds, for each of the six
\* string fields, an entry under the field's header with the field's value if
\* the field is not empty and no entry if it is, and holds nothing else: the
\* two flags give no entry.
C24_NonEmptyFieldsOnly ==
    mapOut.done =>
        /\ \A f \in StringFields :
              IF tagsIn[f] # <<>>
              THEN HeaderOf[f] \in DOMAIN mapOut.map /\ mapOut.map[HeaderOf[f]] = tagsIn[f]
              ELSE HeaderOf[f] \notin DOMAIN mapOut.map
        /\ DOMAIN mapOut.map \subseteq StringHeaders
        /\ Cardinality(DOMAIN mapOut.map)
              = Cardinality({f \in StringFields : tagsIn[f] # <<>>})

\* C24 witness: tags with an empty container_id, the other strings set and
\* both flags true gave five entries.
C24_Witness ==
    /\ mapOut.done
    /\ tagsIn.container_id = <<>>
    /\ tagsIn.client_computed_top_level /\ tagsIn.client_computed_stats
    /\ Cardinality(DOMAIN mapOut.map) = 5
    /\ mapOut.map["datadog-meta-lang"] = SliceVersion

\* C25: in the TracerHeaderTags made of a header map, client_computed_top_level
\* is true exactly when datadog-client-computed-top-level is there with a
\* non-empty value, and client_computed_stats exactly when
\* datadog-client-computed-stats is.
C25_FlagsNeedNonEmptyValue ==
    tagsOut.done =>
        /\ tagsOut.tags.client_computed_top_level
              <=> (TopLevelHeader \in DOMAIN headersIn /\ headersIn[TopLevelHeader] # <<>>)
        /\ tagsOut.tags.client_computed_stats
              <=> (StatsHeader \in DOMAIN headersIn /\ headersIn[StatsHeader] # <<>>)

\* The socket has gone silent: the read the loop awaits never completes.
ReadNeverCompletes == pc = "read" /\ reads = MaxReads

\* C26: the loop never holds the aggregator lock while it awaits a datagram:
\* it takes the lock only at its lock() call, after a datagram was read and
\* parsed into the metrics still to insert, it has given the lock back whenever
\* a read begins, and an idle exporter that asks for the lock while the loop
\* awaits a datagram, one that never arrives included, gets it.
C26_NoLockWhileReading ==
    /\ [](pc = "read" => lock # "loop")
    /\ [][LoopAcquires =>
              /\ pc = "lock" /\ reads >= 1
              /\ pending # <<>> /\ pending = BufMetrics]_vars
    /\ [][(pc # "read" /\ pc' = "read") => lock' # "loop"]_vars
    /\ []((pc = "read" /\ pcE = "idle") => ENABLED ExportAcquire)

\* The loop awaits a datagram that never arrives, after it inserted metrics,
\* and the exporter has taken the lock and its series snapshot meanwhile.
C26_Witness ==
    /\ ReadNeverCompletes
    /\ lock = "exporter" /\ pcE = "series"
    /\ series # <<>>

\* The token was cancelled before the first read of spin returned, which is
\* the case of a token cancelled before spin is called.  With the token
\* cancelled during a read, reads counts the datagrams returned so far: none
\* while the first read is pending, and one from then on, the loop being past
\* its read (a loop back at "read" with one datagram returned was cancelled
\* during its second read).
CancelledAtStart ==
    /\ CancelledInRead
    /\ reads = 0 \/ (reads = 1 /\ pc # "read")

\* C28: the token is looked at only after a datagram was read and its metrics
\* were given to the aggregator, so spin never returns without having read;
\* with the token cancelled before the first read returned, the loop reads
\* that one datagram and no other, inserts its metrics, and the check after it
\* ends spin.
C28_OneDatagramBeforeCheck ==
    /\ [](pc \in {"check", "cancelled"} => (reads >= 1 /\ OfferedMetrics = BufMetrics))
    /\ [](CancelledAtStart => reads <= 1)
    /\ []((CancelledAtStart /\ pc \in {"check", "cancelled"}) => reads = 1)
    /\ [][(CancelledAtStart /\ pc = "check" /\ pc' # pc) => pc' = "cancelled"]_vars
    /\ [][(CancelledAtStart /\ pc = "read" /\ pc' # pc) =>
              (reads' = 1 /\ pc' # "cancelled") \/ ReadFailed']_vars

\* spin has returned on a token cancelled before its first read returned; the
\* one datagram it read carried a metric, which the aggregator holds.
C28_Witness ==
    /\ pc = "cancelled"
    /\ CancelledAtStart
    /\ reads = 1
    /\ table # <<>>

\* A datagram that decodes and holds no line that is a metric.
NoMetricLine(d) ==
    /\ ValidUtf8(d)
    /\ \A i \in 1..Len(SplitOn(d, NL)) :
           LET l == SplitOn(d, NL)[i] IN Droppable(l) \/ ~ParsesOk(l)

\* The loop takes from the socket a datagram without a metric line.
ReadsNoMetric ==
    /\ pc = "read" /\ reads' = reads + 1
    /\ \E d \in Datagrams(traffic) : NoMetricLine(d) /\ buf' = d

\* C29: a datagram without a metric line leaves the aggregator as it was and
\* the loop goes from the read straight to the check of the token: it neither
\* takes nor waits for the lock, whoever holds it, and a poisoned lock does not
\* end it.
C29_NoMetricsNoLock ==
    /\ [][ReadsNoMetric =>
              /\ pc' = "check"
              /\ table' = table /\ lock' = lock /\ poisoned' = poisoned
              /\ pcE' = pcE
              /\ panicMsg' = panicMsg /\ offered' = <<>>]_vars
    /\ []((Processing /\ BufMetrics = <<>>) => (pc = "check" /\ offered = <<>>))
    /\ [][(pc = "check" /\ BufMetrics = <<>>) => ~LoopAcquires /\ pc' # "panicked"]_vars

\* The loop is through a service check datagram, its second datagram, with the
\* lock poisoned all along and the aggregator holding the metric of the first.
C29_Witness ==
    /\ pc = "check" /\ reads = 2
    /\ buf = LineServiceCheck
    /\ poisoned /\ panicMsg = ""
    /\ table # <<>>

\* The task never panics: no read fails, every payload decodes and the loop
\* never finds the lock poisoned.
NeverPanics == [](pc # "panicked")

\* The loop's lock() never waits for ever.
LockGranted == []<>(pc # "lock")

Replayed == replayerOut.done /\ replayerOut.result.ok

\* The key of label j of input sample i is the string key.
HasKey(i, j, key) ==
    get_string(profileIn.samples[i].labels[j].key) = [ok |-> TRUE, val |-> key]

\* The first label of input sample i with the key, 0 if it has none.
FirstWithKey(i, key) ==
    LET hits == {j \in 1..Len(profileIn.samples[i].labels) : HasKey(i, j, key)}
    IN  IF hits = {} THEN 0 ELSE CHOOSE j \in hits : \A k \in hits : j <= k

\* The input samples that carry both a local root span id and a trace endpoint.
Carriers ==
    {i \in 1..Len(profileIn.samples) :
        FirstWithKey(i, "local root span id") # 0 /\ FirstWithKey(i, "trace endpoint") # 0}

\* The span id label and the endpoint label the replayer reads of a carrier.
SpanIdLabel(i) == profileIn.samples[i].labels[FirstWithKey(i, "local root span id")]
TraceEndpointLabel(i) == profileIn.samples[i].labels[FirstWithKey(i, "trace endpoint")]

\* The labels of input sample i that are no trace endpoints.
OtherLabels(i) ==
    {j \in 1..Len(profileIn.samples[i].labels) : ~HasKey(i, j, "trace endpoint")}

\* C30: after a conversion that succeeded the replayer has the samples of the
\* profile, one for one and in their order; each without any label of key
\* "trace endpoint" and with its other labels, in their order; and endpoints
\* has, in the order of the samples, one pair for every sample with both a
\* local root span id and a trace endpoint label: the span id as a u64, not
\* zero, and the string of the endpoint.  A conversion of a profile with such a
\* sample whose span id is zero or whose endpoint has no string fails.
C30_ReplayKeepsSamples ==
    /\ Replayed =>
          LET in == profileIn.samples
              out == replayerOut.result
          IN  /\ Len(out.samples) = Len(in)
              /\ \A i \in 1..Len(in) :
                    /\ out.samples[i].values = in[i].values
                    /\ \A j \in 1..Len(out.samples[i].labels) :
                          out.samples[i].labels[j].key # "trace endpoint"
                    /\ Len(out.samples[i].labels) = Cardinality(OtherLabels(i))
                    /\ \A j \in OtherLabels(i) :
                          out.samples[i].labels[Cardinality({k \in OtherLabels(i) : k <= j})]
                              = Label(in[i].labels[j]).val
              /\ Len(out.endpoints) = Cardinality(Carriers)
              /\ \A i \in Carriers :
                    LET pair == out.endpoints[Cardinality({k \in Carriers : k <= i})]
                    IN  /\ pair[1] = Transmute(SpanIdLabel(i).num)
                        /\ pair[1] # <<0, 0, 0, 0>>
                        /\ TraceEndpointLabel(i).str # 0
                        /\ pair[2] = StringTable[TraceEndpointLabel(i).str + 1]
    /\ (replayerOut.done /\ \E i \in Carriers :
                                SpanIdLabel(i).num = 0 \/ TraceEndpointLabel(i).str = 0)
          => ~replayerOut.result.ok

\* A profile of two samples was replayed: the first has no endpoint, the
\* second has one with a negative span id and lost its trace endpoint label
\* while it kept the two others.
C30_Witness ==
    /\ Replayed
    /\ Len(profileIn.samples) = 2
    /\ Carriers = {2}
    /\ Len(profileIn.samples[1].labels) = 2
    /\ replayerOut.result.endpoints = <<<<Transmute(-1), "POST /login">>>>
    /\ Len(replayerOut.result.samples[2].labels) = 2
    /\ replayerOut.result.samples[2].values = <<30>>

=============================================================================
